---- MODULE Spec2Model ----
(***************************************************************************)
(* Runtime and mod-loader provisioning of the launcher:                    *)
(*   - ql_java_handler: get_java_binary / install_java (install.lock)      *)
(*   - ql_mod_manager::loaders::forge: install_client (forge.lock)         *)
(*   - ql_mod_manager::loaders::fabric: make_launch_jar                    *)
(* File-system, network and subprocess steps are environment steps whose   *)
(* outcome (success / failure kind) is chosen nondeterministically.        *)
(***************************************************************************)
EXTENDS Integers, Sequences, FiniteSets, TLC

(* ------------------------------------------------------------------ *)
(* Bounds                                                              *)
(* ------------------------------------------------------------------ *)
\* number of node jobs the job runner keeps in flight at once
JobLimit == 2

(* ------------------------------------------------------------------ *)
(* Java runtime provisioner: data                                      *)
(* ------------------------------------------------------------------ *)
JavaVersion == {"Java8", "Java16", "Java17", "Java21"}

Platforms ==
  { [os |-> "linux",   arch |-> "x86_64"],
    [os |-> "linux",   arch |-> "aarch64"],
    [os |-> "linux",   arch |-> "arm"],
    [os |-> "macos",   arch |-> "aarch64"],
    [os |-> "windows", arch |-> "x86_64"],
    [os |-> "windows", arch |-> "aarch64"] }

\* versions and executable names the callers ask for
RequestVersions == {"Java8", "Java21"}
RequestNames == {"java", "jshell"}

\* the platform remap of get_java_binary (lines 80-97)
RemapWindowsOnly(p, v) ==
  IF p.os = "windows" /\ p.arch = "aarch64"
  THEN (IF v \in {"Java8", "Java16", "Java17"} THEN "Java17" ELSE "Java21")
  ELSE v

Remap(p, v) ==
  LET v1 == IF p.os = "windows" /\ p.arch = "aarch64"
            THEN (IF v \in {"Java8", "Java16", "Java17"} THEN "Java17" ELSE "Java21")
            ELSE v
  IN  IF p.os = "macos" /\ p.arch = "aarch64"
      THEN (IF v1 = "Java16" THEN "Java17" ELSE v1)
      ELSE v1

\* JavaListJson::get_url: does the official list have a manifest for (platform, version)
get_url(p, v) ==
  CASE p.os = "linux"   /\ p.arch = "x86_64"  -> TRUE
    [] p.os = "linux"   /\ p.arch = "x86"     -> v = "Java8"
    [] p.os = "linux"   /\ p.arch = "aarch64" -> FALSE
    [] p.os = "linux"   /\ p.arch = "arm"     -> FALSE
    [] p.os = "macos"   /\ p.arch = "x86_64"  -> TRUE
    [] p.os = "macos"   /\ p.arch = "aarch64" -> v \in {"Java17", "Java21"}
    [] p.os = "windows" /\ p.arch = "x86_64"  -> TRUE
    [] p.os = "windows" /\ p.arch = "x86"     -> v # "Java21"
    [] p.os = "windows" /\ p.arch = "aarch64" -> v \in {"Java17", "Java21"}
    [] OTHER -> FALSE

\* the third-party installer has a distribution for (platform, version)
ThirdPartySupported(p, v) ==
  CASE p.os = "linux"   /\ p.arch = "aarch64" -> TRUE
    [] p.os = "linux"   /\ p.arch = "arm"     -> v = "Java8"
    [] p.os = "macos"   /\ p.arch = "aarch64" -> v \in {"Java8", "Java16"}
    [] p.os = "windows" /\ p.arch = "x86"     -> v = "Java21"
    [] OTHER -> FALSE

\* directory (relative to the install dir) that holds the executables
BinDir(p, v) ==
  IF p.os = "macos"
  THEN (IF p.arch = "aarch64" /\ v = "Java8" THEN "" ELSE "jre.bundle/") \o "Contents/Home/bin"
  ELSE IF p.os = "linux" /\ p.arch = "arm" THEN "jdk1.8.0_231"
  ELSE "bin"

Ext(p) == IF p.os = "windows" THEN ".exe" ELSE ""

\* JavaFilesJson.files: the manifest, in BTreeMap (sorted path) order
NumNodes == 4
Nodes == 1..NumNodes

JavaFile(p, v, i) ==
  CASE i = 1 -> [type |-> "directory", path |-> BinDir(p, v), lzma |-> FALSE,
                 executable |-> FALSE, parent |-> ""]
    [] i = 2 -> [type |-> "file", path |-> BinDir(p, v) \o "/java" \o Ext(p), lzma |-> TRUE,
                 executable |-> TRUE, parent |-> BinDir(p, v)]
    [] i = 3 -> [type |-> "file", path |-> BinDir(p, v) \o "/javac" \o Ext(p), lzma |-> FALSE,
                 executable |-> TRUE, parent |-> BinDir(p, v)]
    [] OTHER -> [type |-> "link", path |-> "legal", lzma |-> FALSE,
                 executable |-> FALSE, parent |-> ""]

FileNodes(p, v) == {i \in Nodes : JavaFile(p, v, i).type = "file"}

\* what the third-party archive unpacks into the install dir
ThirdPartyFiles(p, v) ==
  {BinDir(p, v), BinDir(p, v) \o "/java" \o Ext(p), BinDir(p, v) \o "/javac" \o Ext(p)}

LOCK == "install.lock"

NoResult == [ok |-> FALSE, val |-> "none"]
Ok(x) == [ok |-> TRUE, val |-> x]
Err(e) == [ok |-> FALSE, val |-> e]

\* lines 104-125: the sub-path whose existence is finally checked by canonicalize
BinarySubPath(p, v, name, files) ==
  IF ("bin/" \o name) \in files THEN Ok("bin/" \o name)
  ELSE IF p.os = "windows" THEN Ok("bin/" \o name \o ".exe")
  ELSE IF p.os = "macos"
       THEN Ok((IF p.arch = "aarch64" /\ v = "Java8" THEN "" ELSE "jre.bundle/")
               \o "Contents/Home/bin/" \o name)
  ELSE IF p.os = "linux" /\ p.arch = "arm" THEN Ok("jdk1.8.0_231/" \o name)
  ELSE Err("NoJavaBinFound")

\* java_dir.canonicalize(): the absolute path when it exists, else an I/O error
canonicalize(dir, rel, files) ==
  IF rel \in files THEN Ok("java_installs/" \o dir \o "/" \o rel) ELSE Err("Io")

(* ------------------------------------------------------------------ *)
(* State                                                               *)
(* ------------------------------------------------------------------ *)
VARIABLES
  platform,     \* cfg!(target_os), cfg!(target_arch)
  jroot,        \* LAUNCHER_DIR/java_installs exists
  jdirs,        \* versions whose java_installs/<version> exists
  jfiles,       \* [version -> set of paths present in java_installs/<version>]
  installed,    \* versions for which an install_java run returned Ok
  jpc,          \* position of the running get_java_binary call
  jcall,        \* its arguments: [version, name, caller]
  jsender,      \* its progress sender: "none" | "live" | "dropped" (receiver gone)
  jincomplete,  \* is_incomplete_install
  jpartial,     \* the call found the lock and only a part of the manifest's files
  jresult,      \* its result
  jobs,         \* [node -> "pending" | "started" | "ok" | "err"] of the do_jobs batch
  file_num,     \* the mutex-guarded counter
  jnet,         \* network requests made by the call
  janswer,      \* [node -> what the server answered to the lzma request of its job]
  jprog,        \* GenericProgress messages handed to Sender::send by the call
  jran,         \* install_java was entered by the call
  jwritten,     \* File nodes downloaded and written by the call
  jfailed,      \* some I/O, network or job step of the call failed
  jprev         \* the direct call that returned Ok last, if nothing came after it

jvars == <<platform, jroot, jdirs, jfiles, installed, jpc, jcall, jsender, jincomplete, jpartial,
           jresult, jobs, file_num, jnet, janswer, jprog, jran, jwritten, jfailed, jprev>>

NoAnswers == [i \in Nodes |-> "none"]
NoCall == [version |-> "none", name |-> "none", caller |-> "none"]
NoPrev == [version |-> "none", name |-> "none", result |-> NoResult]

JInit ==
  /\ platform \in Platforms
  /\ jroot = FALSE
  /\ jdirs = {}
  /\ jfiles = [v \in JavaVersion |-> {}]
  /\ installed = {}
  /\ jpc = "idle"
  /\ jcall = NoCall
  /\ jsender = "none"
  /\ jincomplete = FALSE
  /\ jpartial = FALSE
  /\ jresult = NoResult
  /\ jobs = [i \in Nodes |-> "pending"]
  /\ file_num = 0
  /\ jnet = {}
  /\ janswer = NoAnswers
  /\ jprog = <<>>
  /\ jran = FALSE
  /\ jwritten = {}
  /\ jfailed = FALSE
  /\ jprev = NoPrev

\* the version install_java works on, and the directory get_java_binary looks in
Version == Remap(platform, jcall.version)
JavaDir == jcall.version

\* send_progress of ql_java_handler: with a sender, the message is handed to the channel;
\* the Err of a send to a dropped receiver is logged and ignored
send_progress(sender, chan, msg) == IF sender # "none" THEN Append(chan, msg) ELSE chan

JFail(e) ==
  /\ jresult' = Err(e)
  /\ jfailed' = TRUE
  /\ jpc' = "done"

(* ------------------------------------------------------------------ *)
(* get_java_binary                                                     *)
(* ------------------------------------------------------------------ *)
\* lines 72-102: entry, lock check, remap, decision to install
NeedsInstallAlways(dir, incomplete) == TRUE

NeedsInstallDirOnly(dir, incomplete) == dir \notin jdirs

NeedsInstall(dir, incomplete) == dir \notin jdirs \/ incomplete

BeginGetJavaBinary(v, n, s, who) ==
  /\ jpc = "idle"
  /\ jcall' = [version |-> v, name |-> n, caller |-> who]
  /\ jsender' = s
  /\ jincomplete' = (LOCK \in jfiles[v])
  /\ jpartial' = /\ LOCK \in jfiles[v]
                 /\ \E i, k \in FileNodes(platform, v) :
                      /\ JavaFile(platform, v, i).path \in jfiles[v]
                      /\ JavaFile(platform, v, k).path \notin jfiles[v]
  /\ jresult' = NoResult
  /\ jobs' = [i \in Nodes |-> "pending"]
  /\ file_num' = 0
  /\ jnet' = {}
  /\ janswer' = NoAnswers
  /\ jprog' = <<>>
  /\ jwritten' = {}
  /\ jfailed' = FALSE
  /\ IF NeedsInstall(v, LOCK \in jfiles[v])
     THEN jpc' = "get_install_dir" /\ jran' = TRUE
     ELSE jpc' = "resolve" /\ jran' = FALSE
  /\ UNCHANGED <<platform, jroot, jdirs, jfiles, installed, jprev>>

GetJavaBinary(v, n, s) == BeginGetJavaBinary(v, n, s, "user")

\* lines 228-238: get_install_dir (two create_dir_all calls)
GetInstallDir ==
  /\ jpc = "get_install_dir"
  /\ \/ /\ JFail("Io")                       \* creating java_installs fails
        /\ UNCHANGED <<jroot, jdirs>>
     \/ /\ JFail("Io")                       \* creating java_installs/<version> fails
        /\ jroot' = TRUE
        /\ UNCHANGED jdirs
     \/ /\ jroot' = TRUE
        /\ jdirs' = jdirs \cup {Version}
        /\ jpc' = "write_lock"
        /\ UNCHANGED <<jresult, jfailed>>
  /\ UNCHANGED <<platform, jfiles, installed, jcall, jsender, jincomplete, jpartial, jobs, file_num,
                 jnet, janswer, jprog, jran, jwritten, jprev>>

\* lines 136-145: write install.lock, send the initial progress
WriteLock ==
  /\ jpc = "write_lock"
  /\ \/ /\ JFail("Io")
        /\ UNCHANGED <<jfiles, jprog>>
     \/ /\ jfiles' = [jfiles EXCEPT ![Version] = @ \cup {LOCK}]
        /\ jprog' = send_progress(jsender, jprog, [kind |-> "default"])
        /\ jpc' = "download_list"
        /\ UNCHANGED <<jresult, jfailed>>
  /\ UNCHANGED <<platform, jroot, jdirs, installed, jcall, jsender, jincomplete, jpartial, jobs,
                 file_num, jnet, janswer, jran, jwritten, jprev>>

\* lines 164-206: JavaListJson::download and get_url
DownloadList ==
  /\ jpc = "download_list"
  /\ jnet' = jnet \cup {<<"java_list", 0>>}
  /\ \/ JFail("JsonDownload")
     \/ /\ jpc' = IF get_url(platform, Version) THEN "download_manifest" ELSE "third_party"
        /\ UNCHANGED <<jresult, jfailed>>
  /\ UNCHANGED <<platform, jroot, jdirs, jfiles, installed, jcall, jsender, jincomplete, jpartial,
                 jobs, file_num, janswer, jprog, jran, jwritten, jprev>>

\* line 208: download the manifest of the version
DownloadManifest ==
  /\ jpc = "download_manifest"
  /\ jnet' = jnet \cup {<<"manifest", 0>>}
  /\ \/ JFail("JsonDownload")
     \/ /\ jpc' = "jobs"
        /\ UNCHANGED <<jresult, jfailed>>
  /\ UNCHANGED <<platform, jroot, jdirs, jfiles, installed, jcall, jsender, jincomplete, jpartial,
                 jobs, file_num, janswer, jprog, jran, jwritten, jprev>>

\* line 205: install_third_party_java
ThirdParty ==
  /\ jpc = "third_party"
  /\ IF ~ThirdPartySupported(platform, Version)
     THEN /\ JFail("UnsupportedOnlyJava8")
          /\ UNCHANGED <<jnet, jfiles>>
     ELSE /\ jnet' = jnet \cup {<<"third_party", 0>>}
          /\ \/ /\ JFail("Request")
                /\ UNCHANGED jfiles
             \/ /\ JFail("TarGzExtract")
                /\ \E part \in SUBSET ThirdPartyFiles(platform, Version) :
                     jfiles' = [jfiles EXCEPT ![Version] = @ \cup part]
             \/ /\ jfiles' = [jfiles EXCEPT ![Version] = @ \cup ThirdPartyFiles(platform, Version)]
                /\ jpc' = "remove_lock"
                /\ UNCHANGED <<jresult, jfailed>>
  /\ UNCHANGED <<platform, jroot, jdirs, installed, jcall, jsender, jincomplete, jpartial,
                 jobs, file_num, janswer, jprog, jran, jwritten, jprev>>

(* ------------------------------------------------------------------ *)
(* The do_jobs batch of java_install_fn jobs (lines 213-223, 251-303)  *)
(* ------------------------------------------------------------------ *)
InFlight == {i \in Nodes : jobs[i] = "started"}
ErrorObserved == \E i \in Nodes : jobs[i] = "err"

\* do_jobs starts a pending job while fewer than the limit are in flight and no job
\* has failed
MayStartAfterError == Cardinality(InFlight) < JobLimit

MayStart == ~ErrorObserved /\ Cardinality(InFlight) < JobLimit

\* line 271: `*file_num += 1`, with the lock of line 260 still held
IncrementLost(n) == n

Increment(n) == n + 1

\* lines 259-272: take the mutex, report progress, increment the counter
JobStart(i) ==
  /\ jpc = "jobs"
  /\ jobs[i] = "pending"
  /\ MayStart
  /\ jobs' = [jobs EXCEPT ![i] = "started"]
  /\ jprog' = send_progress(jsender, jprog,
                 [kind |-> "file", done |-> file_num, total |-> NumNodes])
  /\ file_num' = Increment(file_num)
  /\ UNCHANGED <<platform, jroot, jdirs, jfiles, installed, jpc, jcall, jsender, jincomplete, jpartial,
                 jresult, jnet, janswer, jran, jwritten, jfailed, jprev>>

\* what the server can answer to the request for the lzma variant (a payload that
\* decompresses, a payload that does not, a failed download) and for the raw URL
LzmaAnswers == {"ok", "bad", "fail"}
RawAnswers == {"ok", "fail"}

\* lines 305-332: download_file; the URLs it requests and whether it yields bytes
download_file_raw_after_any_failure(i, lzma, la, ra) ==
  IF lzma /\ la = "ok"
  THEN [req |-> {<<"lzma", i>>}, ok |-> TRUE]
  ELSE [req |-> (IF lzma THEN {<<"lzma", i>>} ELSE {}) \cup {<<"raw", i>>}, ok |-> ra = "ok"]

download_file(i, lzma, la, ra) ==
  IF ~lzma
  THEN [req |-> {<<"raw", i>>}, ok |-> ra = "ok"]                   \* normal_download
  ELSE IF la = "fail"
  THEN [req |-> {<<"lzma", i>>}, ok |-> FALSE]                      \* `?` at line 319
  ELSE IF la = "ok"
  THEN [req |-> {<<"lzma", i>>}, ok |-> TRUE]                       \* decompressed
  ELSE [req |-> {<<"lzma", i>>, <<"raw", i>>}, ok |-> ra = "ok"]    \* fall back to raw

\* the answer to the request for the lzma variant, if it was made
Answered(i, d, la) == IF <<"lzma", i>> \in d.req THEN la ELSE "none"

\* lines 296-300: the install directory after the branch of a link node
link_created(files, f) == files \cup {f.path}

link(files, f) == files

JobDone(i, ok) ==
  /\ jobs' = [jobs EXCEPT ![i] = IF ok THEN "ok" ELSE "err"]
  /\ jfailed' = (jfailed \/ ~ok)

\* lines 274-302: the body of one job
JobFinish(i) ==
  LET f == JavaFile(platform, Version, i) IN
  /\ jpc = "jobs"
  /\ jobs[i] = "started"
  /\ CASE f.type = "file" ->
           \E la \in LzmaAnswers, ra \in RawAnswers :
             LET d == download_file(i, f.lzma, la, ra) IN
             /\ jnet' = jnet \cup d.req
             /\ janswer' = [janswer EXCEPT ![i] = Answered(i, d, la)]
             /\ \/ /\ ~d.ok                                  \* download_file fails
                   /\ JobDone(i, FALSE)
                   /\ UNCHANGED <<jfiles, jwritten>>
                \/ /\ d.ok                                   \* tokio::fs::write fails
                   /\ JobDone(i, FALSE)
                   /\ UNCHANGED <<jfiles, jwritten>>
                \/ /\ d.ok                                   \* written
                   /\ f.parent \in jfiles[Version]
                   /\ jfiles' = [jfiles EXCEPT ![Version] = @ \cup {f.path}]
                   /\ jwritten' = jwritten \cup {i}
                   /\ \E chmod \in BOOLEAN :                 \* set_executable (unix)
                        /\ (chmod = FALSE) => (f.executable /\ platform.os # "windows")
                        /\ JobDone(i, chmod)
       [] f.type = "directory" ->
           /\ \/ /\ jfiles' = [jfiles EXCEPT ![Version] = @ \cup {f.path}]
                 /\ JobDone(i, TRUE)
              \/ /\ JobDone(i, FALSE)
                 /\ UNCHANGED jfiles
           /\ UNCHANGED <<jnet, janswer, jwritten>>
       [] OTHER ->                                           \* link: logged, nothing done
           /\ jfiles' = [jfiles EXCEPT ![Version] = link(@, f)]
           /\ JobDone(i, TRUE)
           /\ UNCHANGED <<jnet, janswer, jwritten>>
  /\ UNCHANGED <<platform, jroot, jdirs, installed, jpc, jcall, jsender, jincomplete, jpartial,
                 jresult, file_num, jprog, jran, jprev>>

\* do_jobs: once an error is observed nothing more is started; it returns when the jobs
\* in flight have drained
BatchOver == InFlight = {} /\ (ErrorObserved \/ \A i \in Nodes : jobs[i] = "ok")

\* line 223: `do_jobs(results).await?` propagates the first error
BatchResultIgnored == "ok"

BatchResult == IF ErrorObserved THEN "err" ELSE "ok"

JobsReturn ==
  /\ jpc = "jobs"
  /\ BatchOver
  /\ IF BatchResult = "err"
     THEN JFail("Job")
     ELSE jpc' = "remove_lock" /\ UNCHANGED <<jresult, jfailed>>
  /\ UNCHANGED <<platform, jroot, jdirs, jfiles, installed, jcall, jsender, jincomplete, jpartial,
                 jobs, file_num, jnet, janswer, jprog, jran, jwritten, jprev>>

\* lines 150-156: remove install.lock, then report finished()
RemoveLock(files) == files \ {LOCK}

FinishInstall ==
  /\ jpc = "remove_lock"
  /\ \/ /\ JFail("Io")
        /\ UNCHANGED <<jfiles, jprog, installed>>
     \/ /\ jfiles' = [jfiles EXCEPT ![Version] = RemoveLock(@)]
        /\ jprog' = send_progress(jsender, jprog, [kind |-> "finished"])
        /\ installed' = installed \cup {Version}
        /\ jpc' = "resolve"
        /\ UNCHANGED <<jresult, jfailed>>
  /\ UNCHANGED <<platform, jroot, jdirs, jcall, jsender, jincomplete, jpartial, jobs, file_num,
                 jnet, janswer, jran, jwritten, jprev>>

\* lines 104-127: pick the binary path and canonicalize it
Resolve ==
  /\ jpc = "resolve"
  /\ LET sub == BinarySubPath(platform, Version, jcall.name, jfiles[JavaDir])
     IN  jresult' = IF sub.ok THEN canonicalize(JavaDir, sub.val, jfiles[JavaDir]) ELSE sub
  /\ jpc' = "done"
  /\ UNCHANGED <<platform, jroot, jdirs, jfiles, installed, jcall, jsender, jincomplete, jpartial,
                 jobs, file_num, jnet, janswer, jprog, jran, jwritten, jfailed, jprev>>

\* the caller takes the result; the call's locals are gone
ReturnGetJavaBinary ==
  /\ jpc = "done"
  /\ jpc' = "idle"
  /\ jprev' = IF jresult.ok /\ jcall.caller = "user"
              THEN [version |-> jcall.version, name |-> jcall.name, result |-> jresult]
              ELSE NoPrev
  /\ jcall' = NoCall
  /\ jsender' = "none"
  /\ jincomplete' = FALSE
  /\ jpartial' = FALSE
  /\ jresult' = NoResult
  /\ jobs' = [i \in Nodes |-> "pending"]
  /\ file_num' = 0
  /\ jnet' = {}
  /\ janswer' = NoAnswers
  /\ jprog' = <<>>
  /\ jran' = FALSE
  /\ jwritten' = {}
  /\ jfailed' = FALSE
  /\ UNCHANGED <<platform, jroot, jdirs, jfiles, installed>>

JavaReturn ==
  /\ jcall.caller = "user"
  /\ ReturnGetJavaBinary

\* the caller drops the receiver of the GenericProgress channel
DropJavaReceiver ==
  /\ jpc \notin {"idle", "done"}
  /\ jsender = "live"
  /\ jsender' = "dropped"
  /\ UNCHANGED <<platform, jroot, jdirs, jfiles, installed, jpc, jcall, jincomplete, jpartial,
                 jresult, jobs, file_num, jnet, janswer, jprog, jran, jwritten, jfailed, jprev>>

\* lines 360-369: delete_java_installs
delete_java_installs ==
  /\ jpc = "idle"
  /\ jroot
  /\ \/ /\ jroot' = FALSE
        /\ jdirs' = {}
        /\ jfiles' = [v \in JavaVersion |-> {}]
        /\ installed' = {}
     \/ UNCHANGED <<jroot, jdirs, jfiles, installed>>      \* remove_dir_all fails: logged
  /\ jprev' = NoPrev
  /\ UNCHANGED <<platform, jpc, jcall, jsender, jincomplete, jpartial, jresult, jobs, file_num,
                 jnet, janswer, jprog, jran, jwritten, jfailed>>

JavaSteps ==
  \/ GetInstallDir
  \/ WriteLock
  \/ DownloadList
  \/ DownloadManifest
  \/ ThirdParty
  \/ \E i \in Nodes : JobStart(i)
  \/ \E i \in Nodes : JobFinish(i)
  \/ JobsReturn
  \/ FinishInstall
  \/ Resolve
  \/ DropJavaReceiver

JNext ==
  \/ \E v \in RequestVersions, n \in RequestNames, s \in {"none", "live", "dropped"} :
       GetJavaBinary(v, n, s)
  \/ JavaSteps
  \/ JavaReturn
  \/ delete_java_installs

(* ------------------------------------------------------------------ *)
(* Forge installer: data                                               *)
(* ------------------------------------------------------------------ *)
\* number of libraries of the descriptor that are considered
MaxLibs == 3

RECURSIVE Str(_)
\* a string given as a sequence of characters, as one string
Str(cs) == IF cs = <<>> THEN "" ELSE Head(cs) \o Str(Tail(cs))

RECURSIVE Join(_, _)
\* parts joined with a separator
Join(parts, sep) ==
  IF parts = <<>> THEN ""
  ELSE IF Len(parts) = 1 THEN parts[1]
  ELSE parts[1] \o sep \o Join(Tail(parts), sep)

Digits == <<"0", "1", "2", "3", "4", "5", "6", "7", "8", "9">>
IsDigit(c) == \E d \in 1..10 : Digits[d] = c
DigitVal(c) == (CHOOSE d \in 1..10 : Digits[d] = c) - 1

\* version.split('.').next(): the characters before the first full stop
RECURSIVE FirstComponent(_)
FirstComponent(cs) ==
  IF cs = <<>> \/ Head(cs) = "." THEN <<>> ELSE <<Head(cs)>> \o FirstComponent(Tail(cs))

RECURSIVE ParseDigits(_, _)
ParseDigits(cs, acc) ==
  IF cs = <<>> THEN acc
  ELSE IF ~IsDigit(Head(cs)) THEN -1
  ELSE ParseDigits(Tail(cs), acc * 10 + DigitVal(Head(cs)))

\* str::parse::<usize>: decimal digits with an optional leading '+'; -1 stands for Err
ParseUsize(cs) ==
  LET body == IF cs # <<>> /\ Head(cs) = "+" THEN Tail(cs) ELSE cs
  IN  IF body = <<>> THEN -1 ELSE ParseDigits(body, 0)

RECURSIVE CountChar(_, _)
CountChar(cs, c) ==
  IF cs = <<>> THEN 0 ELSE (IF Head(cs) = c THEN 1 ELSE 0) + CountChar(Tail(cs), c)

\* release time of 1.5.2, "2013-04-25T15:45:00+00:00", as <<yyyymmdd, HHMM>> (UTC)
v1_5_2 == <<20130425, 1545>>

\* DateTime comparison `a <= b`
TimeLeq(a, b) == a[1] < b[1] \/ (a[1] = b[1] /\ a[2] <= b[2])

\* the details.json of the instances (releaseTime <<0, 0>>: not an RFC 3339 time;
\* ql_is_legacy_version: "none", or the cached "true" / "false")
Games ==
  { [id |-> <<"1", ".", "1", "2", ".", "2">>, releaseTime |-> <<20170918, 1208>>,
     ql_is_legacy_version |-> "false"],
    [id |-> <<"1", ".", "4", ".", "7">>,      releaseTime |-> <<20121228, 0>>,
     ql_is_legacy_version |-> "none"],
    [id |-> <<"1", ".", "5", ".", "2">>,      releaseTime |-> <<20130425, 1545>>,
     ql_is_legacy_version |-> "none"] }

\* VersionDetails::is_legacy_version (the value is also cached in the VersionDetails
\* held by the call, which is dropped when the call returns)
is_legacy_version(g) ==
  IF g.ql_is_legacy_version # "none" THEN g.ql_is_legacy_version = "true"
  ELSE IF g.releaseTime = <<0, 0>> THEN FALSE ELSE TimeLeq(g.releaseTime, v1_5_2)

Some(cs) == [some |-> TRUE, v |-> cs]
None == [some |-> FALSE, v |-> <<>>]

\* the forge_version arguments the callers pass
ForgeVersionArgs ==
  { None,
    Some(<<"1", "4", ".", "2", "3", ".", "5">>),
    Some(<<"6", ".", "6">>),
    Some(<<"4", "9", ".", "0">>),
    Some(<<"x", ".", "1">>) }

\* promotions documents the server may answer with (the `promos` map)
PromotionsDocs ==
  { { <<"1.12.2-latest", <<"1", "4", ".", "2", "3", ".", "5">> >>,
      <<"1.12.2-recommended", <<"1", "4", ".", "2", "3", ".", "4">> >>,
      <<"1.6.4-recommended", <<"9", ".", "1", "1">> >>,
      <<"1.4.7-latest", <<"6", ".", "6">> >> },
    { <<"1.6.4-latest", <<"9", ".", "1", "1">> >>,
      <<"1.12.2-recommended", <<"1", "4", ".", "2", "3", ".", "4">> >> } }

\* JsonVersions::get_forge_version
get_forge_version_recommended(promos, minecraft_version) ==
  LET hits == {e \in promos : e[1] = minecraft_version \o "-recommended"}
  IN  IF hits = {} THEN None ELSE Some((CHOOSE e \in hits : TRUE)[2])

get_forge_version(promos, minecraft_version) ==
  LET hits == {e \in promos : e[1] = minecraft_version \o "-latest"}
  IN  IF hits = {} THEN None ELSE Some((CHOOSE e \in hits : TRUE)[2])

\* ForgeInstaller::new, lines 92-102: the version strings of the installer
norm_version(id) == IF CountChar(id, ".") = 1 THEN Str(id) \o ".0" ELSE Str(id)
short_version_loader_first(id, version) == Str(version) \o "-" \o Str(id)

short_version(id, version) == Str(id) \o "-" \o Str(version)
norm_forge_version(id, version) == short_version(id, version) \o "-" \o norm_version(id)
major_version(version) == ParseUsize(FirstComponent(version))

NoInstaller == [version |-> <<>>, short_version |-> "", norm_forge_version |-> "",
                major_version |-> 0]

\* download_forge_installer, lines 119-138: the candidate URLs
MAVEN == "https://files.minecraftforge.net/maven/net/minecraftforge/forge/"
MAVEN2 == "https://maven.minecraftforge.net/net/minecraftforge/forge/"
Candidate(base, ver, kind) == base \o ver \o "/forge-" \o ver \o "-" \o kind

file_type(inst) == IF inst.major_version < 14 THEN "universal" ELSE "installer"
file_type_flipped(inst) == IF inst.major_version < 14 THEN "installer" ELSE "universal"

urls(inst) ==
  << Candidate(MAVEN, inst.short_version, file_type(inst) \o ".jar"),
     Candidate(MAVEN, inst.norm_forge_version, file_type(inst) \o ".jar"),
     Candidate(MAVEN, inst.short_version, file_type_flipped(inst) \o ".jar"),
     Candidate(MAVEN, inst.norm_forge_version, file_type_flipped(inst) \o ".jar"),
     Candidate(MAVEN, inst.short_version, "client.zip"),
     Candidate(MAVEN, inst.norm_forge_version, "client.zip"),
     Candidate(MAVEN2, inst.short_version, "universal.zip"),
     Candidate(MAVEN2, inst.norm_forge_version, "universal.zip") >>

installer_name(inst) == "forge-" \o inst.short_version \o "-" \o file_type(inst) \o ".jar"

\* try_downloading_from_urls, line 165 (i is the 0-based index of the candidate)
is_last_url_by_index(i, num_urls) == i = num_urls

is_last_url(i, num_urls) == i + 1 = num_urls

\* try_downloading_from_urls, lines 164-169
ShouldContinueAnyError(kind, i, num_urls) == i + 1 # num_urls

ShouldContinue(kind, i, num_urls) == kind = "not_found" /\ ~is_last_url(i, num_urls)

FORGE_LOCK == "forge.lock"
CLASSPATH_SEPARATOR == ":"

(* ------------------------------------------------------------------ *)
(* Forge installer: state                                              *)
(* ------------------------------------------------------------------ *)
VARIABLES
  game,            \* the instance's details.json (VersionDetails)
  ifiles,          \* of the paths install_client tests for existence (forge.lock and the
                   \* library files), those present in the instance directory
  ipartial,        \* library files a failed download left incomplete
  fpc,             \* position of the running install_client call
  fver,            \* its forge_version argument
  fsender,         \* f_progress: "none" | "live" | "dropped" (receiver gone)
  fjsender,        \* j_progress, likewise
  fresult,         \* its result
  installer,       \* the ForgeInstaller
  url_i,           \* index of the candidate URL being tried (0-based)
  freq,            \* candidate URLs requested so far and their outcomes, in request order
  flibs,           \* libs: the client libraries of the descriptor
  lib_i,           \* library_i
  classpath,       \* the classpath being assembled (entries)
  clean_classpath, \* the clean classpath being assembled (lines)
  fprog,           \* ForgeInstallProgress messages handed to Sender::send
  flog,            \* the steps the call has performed, in order
  flockStart,      \* forge.lock existed when the call started
  forge_json,      \* forge_json.libraries: the library list of the descriptor
  output,          \* run_installer: the Output of the subprocess that failed
  zip,             \* get_forge_json: the archive in which no descriptor was found
  result           \* download_library: `result` of the library's download

finstv == <<game, ifiles, ipartial>>
flocals == <<forge_json, output, zip, result>>
fcallv == <<fver, fsender, fjsender, installer, url_i, freq, flibs, lib_i, classpath,
            clean_classpath, fprog, flockStart, flocals>>
fvars == <<finstv, fcallv, fpc, fresult, flog>>

Panic == [ok |-> FALSE, val |-> "panic"]
NoOutput == [status |-> "none", utf8 |-> TRUE]
NoArchive == [zip |-> FALSE, version_json |-> "none", install_profile |-> "none"]

FInit ==
  /\ game \in Games
  /\ ifiles = {}
  /\ ipartial = {}
  /\ fpc = "idle"
  /\ fver = None
  /\ fsender = "none"
  /\ fjsender = "none"
  /\ fresult = NoResult
  /\ installer = NoInstaller
  /\ url_i = 0
  /\ freq = <<>>
  /\ flibs = <<>>
  /\ lib_i = 0
  /\ classpath = <<>>
  /\ clean_classpath = <<>>
  /\ fprog = <<>>
  /\ flog = <<>>
  /\ flockStart = FALSE
  /\ forge_json = <<>>
  /\ output = NoOutput
  /\ zip = NoArchive
  /\ result = "none"

Did(step) == [step |-> step, ok |-> TRUE]
Failed(step) == [step |-> step, ok |-> FALSE]

\* a step succeeded and the call goes on
FOk(step, next) ==
  /\ flog' = Append(flog, Did(step))
  /\ fpc' = next
  /\ UNCHANGED fresult

\* a step failed: `?` returns the error to the caller of install_client
FErr(step, e) ==
  /\ flog' = Append(flog, Failed(step))
  /\ fresult' = Err(e)
  /\ fpc' = "done"

\* Sender::send(..).unwrap() on a channel whose receiver is gone
FPanic(step) ==
  /\ flog' = Append(flog, Failed(step))
  /\ fresult' = Panic
  /\ fpc' = "done"

\* ForgeInstallProgress, lines 478-485
Progress(kind) == [kind |-> kind, num |-> 0, out_of |-> 0]
P5DownloadingLibrary(num, out_of) ==
  [kind |-> "P5DownloadingLibrary", num |-> num, out_of |-> out_of]

\* Progress::get_num, lines 494-505, as the fraction n / d (the f32 division and
\* addition are monotone, and exact for the integers 0..4); out_of = 0 gives d = 0,
\* which stands for the NaN or infinity of the f32 division by zero
get_num_out_of_num(msg) ==
  CASE msg.kind = "P1Start" -> [n |-> 0, d |-> 1]
    [] msg.kind = "P2DownloadingJson" -> [n |-> 1, d |-> 1]
    [] msg.kind = "P3DownloadingInstaller" -> [n |-> 2, d |-> 1]
    [] msg.kind = "P4RunningInstaller" -> [n |-> 3, d |-> 1]
    [] msg.kind = "P5DownloadingLibrary" ->
         [n |-> 3 * msg.num + msg.out_of, d |-> msg.num]
    [] OTHER -> [n |-> 4, d |-> 1]

get_num(msg) ==
  CASE msg.kind = "P1Start" -> [n |-> 0, d |-> 1]
    [] msg.kind = "P2DownloadingJson" -> [n |-> 1, d |-> 1]
    [] msg.kind = "P3DownloadingInstaller" -> [n |-> 2, d |-> 1]
    [] msg.kind = "P4RunningInstaller" -> [n |-> 3, d |-> 1]
    [] msg.kind = "P5DownloadingLibrary" ->
         [n |-> 3 * msg.out_of + msg.num, d |-> msg.out_of]
    [] OTHER -> [n |-> 4, d |-> 1]                                   \* P6Done

\* Progress::total, lines 522-524
total == [n |-> 4, d |-> 1]

\* ForgeInstaller::send_progress (lines 148-152) and the send of lines 78-82
SendPanics(sender) == sender = "dropped"
Sent(sender, chan, msg) == IF sender = "none" THEN chan ELSE Append(chan, msg)

\* a step that only succeeds or fails, changing nothing else
IoStep(at, step, next, e) ==
  /\ fpc = at
  /\ \/ FOk(step, next)
     \/ FErr(step, e)
  /\ UNCHANGED <<jvars, finstv, fcallv>>

(* ------------------------------------------------------------------ *)
(* install_client, lines 527-544, and ForgeInstaller::new              *)
(* ------------------------------------------------------------------ *)
InstallClient(fv, fs, js) ==
  /\ fpc = "idle"
  /\ jpc = "idle"
  /\ fver' = fv
  /\ fsender' = fs
  /\ fjsender' = js
  /\ fprog' = Sent(fs, <<>>, Progress("P1Start"))          \* `_ = progress.send(..)`
  /\ flockStart' = (FORGE_LOCK \in ifiles)
  /\ fpc' = "get_forge_dir"
  /\ UNCHANGED <<jvars, finstv, fresult, installer, url_i, freq, flibs, lib_i, classpath,
                 clean_classpath, flog, flocals>>

get_forge_dir == IoStep("get_forge_dir", "get_forge_dir", "load", "Io")

VersionDetails_load == IoStep("load", "load", "create_mods_dir", "JsonFile")

create_mods_dir == IoStep("create_mods_dir", "create_mods_dir", "create_lock_file", "Io")

\* lines 447-460
with_lock_forgotten(files) == files

with_lock(files) == files \cup {FORGE_LOCK}

create_lock_file_create_new ==
  /\ fpc = "create_lock_file"
  /\ IF FORGE_LOCK \in ifiles
     THEN FErr("create_lock_file", "Io")
     ELSE FOk("create_lock_file", "resolve_version")
  /\ ifiles' = with_lock(ifiles)
  /\ UNCHANGED <<jvars, game, ipartial, fcallv>>

create_lock_file ==
  /\ fpc = "create_lock_file"
  /\ IF FORGE_LOCK \in ifiles
     THEN /\ FOk("create_lock_file", "resolve_version")
          /\ UNCHANGED ifiles
     ELSE \/ /\ FOk("create_lock_file", "resolve_version")
             /\ ifiles' = with_lock(ifiles)
          \/ /\ FErr("create_lock_file", "Io")
             /\ UNCHANGED ifiles
  /\ UNCHANGED <<jvars, game, ipartial, fcallv>>

\* lines 77-102: report P2, resolve the loader version, derive the version strings
MakeInstaller(version) ==
  [version |-> version,
   short_version |-> short_version(game.id, version),
   norm_forge_version |-> norm_forge_version(game.id, version),
   major_version |-> major_version(version)]

WithVersion(version) ==
  IF major_version(version) < 0
  THEN /\ FErr("parse_version", "ParseInt")
       /\ UNCHANGED installer
  ELSE /\ FOk("resolve_version", "download_forge_installer")
       /\ installer' = MakeInstaller(version)

resolve_version ==
  /\ fpc = "resolve_version"
  /\ IF SendPanics(fsender)
     THEN /\ FPanic("send_P2")
          /\ UNCHANGED <<fprog, installer>>
     ELSE /\ fprog' = Sent(fsender, fprog, Progress("P2DownloadingJson"))
          /\ IF fver.some
             THEN WithVersion(fver.v)
             ELSE \/ /\ FErr("download_promotions", "JsonDownload")
                     /\ UNCHANGED installer
                  \/ \E promos \in PromotionsDocs :
                       LET version == get_forge_version(promos, Str(game.id)) IN
                       IF version.some
                       THEN /\ flog' = flog \o <<Did("download_promotions"),
                                                 IF major_version(version.v) < 0
                                                 THEN Failed("parse_version")
                                                 ELSE Did("resolve_version")>>
                            /\ IF major_version(version.v) < 0
                               THEN fresult' = Err("ParseInt") /\ fpc' = "done"
                                    /\ UNCHANGED installer
                               ELSE fpc' = "download_forge_installer" /\ UNCHANGED fresult
                                    /\ installer' = MakeInstaller(version.v)
                       ELSE /\ flog' = flog \o <<Did("download_promotions"),
                                                 Failed("get_forge_version")>>
                            /\ fresult' = Err("NoForgeVersionFound")
                            /\ fpc' = "done"
                            /\ UNCHANGED installer
  /\ fver' = IF fpc' = "done" THEN fver ELSE None      \* moved into `version`
  /\ UNCHANGED <<jvars, finstv, fsender, fjsender, url_i, freq, flibs, lib_i,
                 classpath, clean_classpath, flockStart, flocals>>

(* ------------------------------------------------------------------ *)
(* download_forge_installer and try_downloading_from_urls              *)
(* ------------------------------------------------------------------ *)
num_urls == 8

\* lines 125-126: report P3, then start the loop over the candidates
download_forge_installer ==
  /\ fpc = "download_forge_installer"
  /\ IF SendPanics(fsender)
     THEN /\ FPanic("send_P3")
          /\ UNCHANGED <<fprog, url_i>>
     ELSE /\ fprog' = Sent(fsender, fprog, Progress("P3DownloadingInstaller"))
          /\ url_i' = 0
          /\ fpc' = "try_url"
          /\ UNCHANGED <<fresult, flog>>
  /\ UNCHANGED <<jvars, finstv, fver, fsender, fjsender, installer, freq, flibs, lib_i,
                 classpath, clean_classpath, flockStart, flocals>>

\* lines 156-173: one iteration of the loop, the request answering `kind`; when the
\* iterator is exhausted the loop is left and line 173 panics
try_downloading_from_urls(kind) ==
  /\ fpc = "try_url"
  /\ IF url_i < num_urls
     THEN /\ freq' = Append(freq, [url |-> urls(installer)[url_i + 1], kind |-> kind])
          /\ IF kind = "ok"
             THEN /\ FOk("download_installer", "write_installer")
                  /\ UNCHANGED url_i
             ELSE IF ShouldContinue(kind, url_i, num_urls)
             THEN /\ url_i' = url_i + 1
                  /\ UNCHANGED <<fpc, fresult, flog>>
             ELSE /\ FErr("download_installer", "Request")
                  /\ UNCHANGED url_i
     ELSE /\ FPanic("retrying_downloads")
          /\ UNCHANGED <<url_i, freq>>
  /\ UNCHANGED <<jvars, finstv, fver, fsender, fjsender, installer, flibs, lib_i,
                 classpath, clean_classpath, fprog, flockStart, flocals>>

\* lines 140-145 and the branch of line 548
TakesJarmodPathEveryLegacy == is_legacy_version(game)

TakesJarmodPath == is_legacy_version(game) /\ Str(game.id) # "1.5.2"

write_installer ==
  /\ fpc = "write_installer"
  /\ \/ FOk("write_installer", IF TakesJarmodPath THEN "jarmod" ELSE "libraries_dir")
     \/ FErr("write_installer", "Io")
  /\ url_i' = 0                     \* the locals of try_downloading_from_urls are gone
  /\ freq' = <<>>
  /\ UNCHANGED <<jvars, finstv, fver, fsender, fjsender, installer, flibs, lib_i,
                 classpath, clean_classpath, fprog, flockStart, flocals>>

\* lines 549-556: ql_core::jarmod::insert, then `return Ok(())`
jarmod_insert ==
  /\ fpc = "jarmod"
  /\ \/ /\ flog' = Append(flog, Did("jarmod_insert"))
        /\ fresult' = Ok("()")
        /\ fpc' = "done"
     \/ FErr("jarmod_insert", "JarMod")
  /\ UNCHANGED <<jvars, finstv, fcallv>>

(* ------------------------------------------------------------------ *)
(* run_installer_and_get_classpath and run_installer                   *)
(* ------------------------------------------------------------------ *)
ForgeJar(inst) ==
  "../forge/libraries/net/minecraftforge/forge/" \o inst.short_version \o "/forge-"
    \o inst.short_version \o ".jar" \o CLASSPATH_SEPARATOR

\* line 186: the installer program is compiled and run
RunsInstallerAlways(inst) == TRUE

RunsInstaller(inst) == inst.major_version >= 14

\* lines 186-204: the classpath the library entries are appended to
InitialClasspath(inst) ==
  IF inst.major_version >= 14
  THEN (IF inst.major_version < 39 THEN <<ForgeJar(inst)>> ELSE <<>>)
  ELSE <<"../forge/" \o installer_name(inst) \o CLASSPATH_SEPARATOR>>

\* lines 181-186: create the libraries directory
create_libraries_dir ==
  /\ fpc = "libraries_dir"
  /\ \/ /\ FOk("create_libraries_dir",
               IF RunsInstaller(installer) THEN "get_javac" ELSE "get_forge_json")
        /\ classpath' = IF RunsInstaller(installer) THEN classpath
                        ELSE InitialClasspath(installer)
     \/ /\ FErr("create_libraries_dir", "Io")
        /\ UNCHANGED classpath
  /\ UNCHANGED <<jvars, finstv, fver, fsender, fjsender, installer, url_i, freq, flibs,
                 lib_i, clean_classpath, fprog, flockStart, flocals>>

JAVA == IF platform.os = "windows" THEN "javaw" ELSE "java"

\* line 213: get_java_binary(JavaVersion::Java21, "javac", j_progress)
get_javac ==
  /\ fpc = "get_javac"
  /\ BeginGetJavaBinary("Java21", "javac", fjsender, "forge")
  /\ fpc' = "wait_javac"
  /\ UNCHANGED <<finstv, fcallv, fresult, flog>>

\* the `?` on the result of line 213
got_javac ==
  /\ fpc = "wait_javac"
  /\ jpc = "done"
  /\ jcall.caller = "forge"
  /\ IF jresult.ok THEN FOk("get_javac", "write_source") ELSE FErr("get_javac", "JavaInstall")
  /\ ReturnGetJavaBinary
  /\ UNCHANGED <<finstv, fcallv>>

\* lines 214-232: write ForgeInstaller.java and the two launcher_profiles files
write_source == IoStep("write_source", "write_source", "compile", "Io")

\* `output.status.success()`
status_success(out) == out.status = "success"

\* lines 243-248 and 262-267: the error a subprocess that did not succeed is turned
\* into; String::from_utf8 fails on output that is not UTF-8
exit_error(out, variant) == IF out.utf8 THEN variant ELSE "FromUtf8"

\* lines 234-248: report P4, run javac; `out` is what command.output() gives
compile(out) ==
  /\ fpc = "compile"
  /\ IF SendPanics(fsender)
     THEN /\ FPanic("send_P4")
          /\ UNCHANGED <<fprog, output>>
     ELSE /\ fprog' = Sent(fsender, fprog, Progress("P4RunningInstaller"))
          /\ IF out.status = "spawn_failed"
             THEN FErr("compile", "Io") /\ output' = out
             ELSE IF ~status_success(out)
             THEN FErr("compile", exit_error(out, "CompileError")) /\ output' = out
             ELSE FOk("compile", "get_java") /\ UNCHANGED output
  /\ UNCHANGED <<jvars, finstv, fver, fsender, fjsender, installer, url_i, freq, flibs,
                 lib_i, classpath, clean_classpath, flockStart, forge_json, zip, result>>

\* line 250: get_java_binary(JavaVersion::Java21, JAVA, None)
get_java ==
  /\ fpc = "get_java"
  /\ BeginGetJavaBinary("Java21", JAVA, "none", "forge")
  /\ fpc' = "wait_java"
  /\ UNCHANGED <<finstv, fcallv, fresult, flog>>

got_java ==
  /\ fpc = "wait_java"
  /\ jpc = "done"
  /\ jcall.caller = "forge"
  /\ IF jresult.ok THEN FOk("get_java", "run") ELSE FErr("get_java", "JavaInstall")
  /\ ReturnGetJavaBinary
  /\ UNCHANGED <<finstv, fcallv>>

\* lines 251-268: run the installer program, then lines 190-200
run(out) ==
  /\ fpc = "run"
  /\ IF out.status = "spawn_failed"
     THEN FErr("run", "Io") /\ output' = out /\ UNCHANGED classpath
     ELSE IF ~status_success(out)
     THEN /\ FErr("run", exit_error(out, "InstallerError"))
          /\ output' = out
          /\ UNCHANGED classpath
     ELSE /\ FOk("run", "get_forge_json")
          /\ classpath' = InitialClasspath(installer)
          /\ UNCHANGED output
  /\ UNCHANGED <<jvars, finstv, fver, fsender, fjsender, installer, url_i, freq, flibs,
                 lib_i, clean_classpath, fprog, flockStart, forge_json, zip, result>>

(* ------------------------------------------------------------------ *)
(* get_forge_json and the libraries                                    *)
(* ------------------------------------------------------------------ *)
NoDownloads == [present |-> FALSE, path |-> <<>>, url |-> ""]

\* JsonDetails.libraries of the installer's descriptor
AllLibraries ==
  << [class |-> <<"net", "minecraftforge">>, lib |-> "forge", ver |-> "1.0",
      url |-> "", downloads |-> NoDownloads, clientreq |-> "none"],
     [class |-> <<"org", "scala">>, lib |-> "scala", ver |-> "2.11",
      url |-> "https://maven.minecraftforge.net/", downloads |-> NoDownloads,
      clientreq |-> "false"],
     [class |-> <<"net", "minecraft">>, lib |-> "launchwrapper", ver |-> "1.12",
      url |-> "", downloads |-> NoDownloads, clientreq |-> "true"],
     [class |-> <<"org", "ow2", "asm">>, lib |-> "asm-all", ver |-> "5.2",
      url |-> "",
      downloads |-> [present |-> TRUE, path |-> <<"org", "ow2", "asm", "asm-all-5.2.jar">>,
                     url |-> "https://libraries.minecraft.net/org/ow2/asm/asm-all-5.2.jar"],
      clientreq |-> "none"],
     [class |-> <<"net", "minecraft">>, lib |-> "launchwrapper", ver |-> "1.12",
      url |-> "", downloads |-> NoDownloads, clientreq |-> "none"] >>

Libraries == SubSeq(AllLibraries, 1, MaxLibs)

\* a descriptor that declares a library twice
MoreLibraries ==
  << AllLibraries[3], AllLibraries[5], AllLibraries[2], AllLibraries[4], AllLibraries[1] >>

\* the library lists the descriptor of the installer may hold
Descriptors == { Libraries, SubSeq(MoreLibraries, 1, MaxLibs) }

\* what the installer archive holds under its two descriptor entries
Archives ==
  { [zip |-> FALSE, version_json |-> "absent", install_profile |-> "absent"],
    [zip |-> TRUE,  version_json |-> "flat",   install_profile |-> "absent"],
    [zip |-> TRUE,  version_json |-> "flat",   install_profile |-> "wrapped"],
    [zip |-> TRUE,  version_json |-> "bad",    install_profile |-> "wrapped"],
    [zip |-> TRUE,  version_json |-> "unreadable", install_profile |-> "wrapped"],
    [zip |-> TRUE,  version_json |-> "absent", install_profile |-> "wrapped"],
    [zip |-> TRUE,  version_json |-> "absent", install_profile |-> "flat"],
    [zip |-> TRUE,  version_json |-> "absent", install_profile |-> "bad"],
    [zip |-> TRUE,  version_json |-> "absent", install_profile |-> "unreadable"],
    [zip |-> TRUE,  version_json |-> "absent", install_profile |-> "absent"] }

\* lines 271-308
get_forge_json(a) ==
  IF ~a.zip THEN Err("Zip")
  ELSE IF a.version_json # "absent"
  THEN (IF a.version_json = "unreadable" THEN Err("ZipIoError")
        ELSE IF a.version_json = "flat" THEN Ok("version.json") ELSE Err("Json"))
  ELSE IF a.install_profile # "absent"
  THEN (IF a.install_profile = "unreadable" THEN Err("ZipIoError")
        ELSE IF a.install_profile \in {"wrapped", "flat"} THEN Ok("install_profile.json")
        ELSE Err("Json"))
  ELSE Err("NoInstallJson")

\* lines 567-572: the libraries that are not `clientreq: false`
ClientLibsAll(ls) == ls

ClientLibs(ls) == SelectSeq(ls, LAMBDA library : library.clientreq # "false")

\* lines 565-572: read the descriptor from the archive, keep the client libraries
extract_forge_json ==
  /\ fpc = "get_forge_json"
  /\ \E a \in Archives :
       LET r == get_forge_json(a) IN
       IF r.ok
       THEN \E libraries \in Descriptors :
              /\ FOk("get_forge_json",
                     IF ClientLibs(libraries) = <<>> THEN "write_classpath" ELSE "library")
              /\ forge_json' = libraries
              /\ flibs' = ClientLibs(libraries)
              /\ lib_i' = 0
              /\ UNCHANGED zip
       ELSE /\ FErr("get_forge_json", r.val)
            /\ zip' = a
            /\ UNCHANGED <<flibs, lib_i, forge_json>>
  /\ UNCHANGED <<jvars, finstv, fver, fsender, fjsender, installer, url_i, freq,
                 classpath, clean_classpath, fprog, flockStart, output, result>>

\* lines 391-420: (file, path) of a library
get_filename_and_path(l) ==
  IF l.downloads.present
  THEN [file |-> l.downloads.path[Len(l.downloads.path)],
        path |-> Join(SubSeq(l.downloads.path, 1, Len(l.downloads.path) - 1), "/")]
  ELSE [file |-> l.lib \o "-" \o l.ver \o ".jar",
        path |-> Join(l.class, "/") \o "/" \o l.lib \o "/" \o l.ver]

\* line 386
classpath_item_no_separator(fp) == "../forge/libraries/" \o fp.path \o "/" \o fp.file

classpath_item(fp) ==
  "../forge/libraries/" \o fp.path \o "/" \o fp.file \o CLASSPATH_SEPARATOR

\* lines 385-389: classpath.push_str(&classpath_item)
add_to_classpath_front(cp, fp) == <<classpath_item(fp)>> \o cp

add_to_classpath(cp, fp) == Append(cp, classpath_item(fp))

\* line 373: result.is_not_found()
is_not_found_or_error(kind) == kind # "ok"

is_not_found(kind) == kind = "not_found"

\* where download_library stores the library, relative to the instance directory
dest(fp) == "forge/libraries/" \o fp.path \o "/" \o fp.file

IsForgeItself(l) == Join(l.class, ".") = "net.minecraftforge" /\ l.lib = "forge"

\* line 329: the loader's own library is appended to the classpath
BundledInClasspathAlways(inst) == TRUE

BundledInClasspath(inst) == inst.major_version > 48

LibDone(step, ok) ==
  IF ok
  THEN /\ flog' = Append(flog, Did(step))
       /\ lib_i' = lib_i + 1
       /\ fpc' = IF lib_i + 1 = Len(flibs) THEN "write_classpath" ELSE "library"
       /\ UNCHANGED fresult
  ELSE /\ FErr(step, IF step = "download_library" THEN "Request" ELSE "Io")
       /\ UNCHANGED lib_i

\* line 324: `_ = writeln!(clean_classpath, "{class}:{lib}")`
writeln_once(lines, line) ==
  IF \E k \in 1..Len(lines) : lines[k] = line THEN lines ELSE Append(lines, line)

writeln(lines, line) == Append(lines, line)

\* lines 310-383: download_library for libs[library_i]; `kind` is how the download ends
download_library(kind) ==
  LET l == flibs[lib_i + 1]
      fp == get_filename_and_path(l)
      line == Join(l.class, ".") \o ":" \o l.lib
  IN
  /\ fpc = "library"
  /\ lib_i < Len(flibs)
  /\ clean_classpath' = writeln(clean_classpath, line)
  /\ IF IsForgeItself(l)
     THEN /\ kind = "ok"
          /\ classpath' = IF BundledInClasspath(installer)
                          THEN add_to_classpath(classpath, fp) ELSE classpath
          /\ LibDone("builtin_library", TRUE)
          /\ result' = "none"
          /\ UNCHANGED <<ifiles, ipartial, fprog>>
     ELSE \/ /\ kind = "ok"                              \* create_dir_all fails
             /\ LibDone("create_library_dir", FALSE)
             /\ result' = "none"
             /\ UNCHANGED <<ifiles, ipartial, fprog, classpath>>
          \/ /\ SendPanics(fsender)
             /\ kind = "ok"
             /\ FPanic("send_P5")
             /\ result' = "none"
             /\ UNCHANGED <<ifiles, ipartial, fprog, classpath, lib_i>>
          \/ /\ ~SendPanics(fsender)
             /\ fprog' = Sent(fsender, fprog, P5DownloadingLibrary(lib_i + 1, Len(flibs)))
             /\ IF dest(fp) \in ifiles
                THEN /\ kind = "ok"                      \* already exists: skipped
                     /\ classpath' = add_to_classpath(classpath, fp)
                     /\ LibDone("skip_library", TRUE)
                     /\ result' = "none"
                     /\ UNCHANGED <<ifiles, ipartial>>
                ELSE /\ result' = kind
                     /\ ifiles' = IF kind \in {"ok", "partial"}
                                  THEN ifiles \cup {dest(fp)} ELSE ifiles
                     /\ ipartial' = IF kind = "partial"  \* fails with a part written
                                    THEN ipartial \cup {dest(fp)} ELSE ipartial
                     /\ IF is_not_found(kind)
                        THEN /\ LibDone("library_not_found", TRUE)
                             /\ UNCHANGED classpath
                        ELSE IF kind # "ok"
                        THEN /\ LibDone("download_library", FALSE)
                             /\ UNCHANGED classpath
                        ELSE /\ classpath' = add_to_classpath(classpath, fp)
                             /\ LibDone("download_library", TRUE)
  /\ UNCHANGED <<jvars, game, fver, fsender, fjsender, installer, url_i, freq,
                 flibs, flockStart, forge_json, output, zip>>

(* ------------------------------------------------------------------ *)
(* install_client, lines 587-610: persist and unlock                   *)
(* ------------------------------------------------------------------ *)
\* the three output files are only written, never read back, by install_client:
\* the log of the call records that they were written
write_classpath == IoStep("write_classpath", "write_classpath", "write_clean_classpath", "Io")

write_clean_classpath ==
  IoStep("write_clean_classpath", "write_clean_classpath", "write_details", "Io")

write_details_then_unlock == IoStep("write_details", "write_details", "remove_lock", "Io")

write_details == IoStep("write_details", "write_details", "change_instance_type", "Io")

\* line 605: crate::loaders::change_instance_type(.., "Forge")
change_instance_type == IoStep("change_instance_type", "change_instance_type", "remove_lock", "Io")

\* lines 53-57 and 607-609
remove_lock(files) == files \ {FORGE_LOCK}

finish_install ==
  /\ fpc = "remove_lock"
  /\ \/ /\ flog' = Append(flog, Did("remove_lock"))
        /\ ifiles' = remove_lock(ifiles)
        /\ fresult' = Ok("()")
        /\ fpc' = "done"
     \/ /\ FErr("remove_lock", "Io")
        /\ UNCHANGED ifiles
  /\ UNCHANGED <<jvars, game, ipartial, fcallv>>

\* install_client has returned (or unwound): its locals are gone
ReturnInstallClient ==
  /\ fpc = "done"
  /\ fpc' = "idle"
  /\ fver' = None
  /\ fsender' = "none"
  /\ fjsender' = "none"
  /\ fresult' = NoResult
  /\ installer' = NoInstaller
  /\ url_i' = 0
  /\ freq' = <<>>
  /\ flibs' = <<>>
  /\ lib_i' = 0
  /\ classpath' = <<>>
  /\ clean_classpath' = <<>>
  /\ fprog' = <<>>
  /\ flog' = <<>>
  /\ flockStart' = FALSE
  /\ forge_json' = <<>>
  /\ output' = NoOutput
  /\ zip' = NoArchive
  /\ result' = "none"
  /\ UNCHANGED <<jvars, finstv>>

\* the caller drops the receiver of the ForgeInstallProgress channel
DropForgeReceiver ==
  /\ fpc \notin {"idle", "done", "wait_javac", "wait_java"}   \* seen at the next send
  /\ fsender = "live"
  /\ fsender' = "dropped"
  /\ UNCHANGED <<jvars, finstv, fver, fjsender, installer, url_i, freq, flibs, lib_i,
                 classpath, clean_classpath, fprog, flockStart, flocals, fpc, fresult, flog>>

SenderStates == {"none", "live", "dropped"}
DownloadKinds == {"ok", "not_found", "other"}
\* what std::process::Command::output() gives: an exit status with output that is
\* UTF-8 or not, or no process at all
ExitKinds ==
  { [status |-> "success", utf8 |-> TRUE],
    [status |-> "nonzero", utf8 |-> TRUE],
    [status |-> "nonzero", utf8 |-> FALSE],
    [status |-> "spawn_failed", utf8 |-> TRUE] }

ForgeSteps ==
  \/ get_forge_dir
  \/ VersionDetails_load
  \/ create_mods_dir
  \/ create_lock_file
  \/ resolve_version
  \/ download_forge_installer
  \/ \E kind \in DownloadKinds : try_downloading_from_urls(kind)
  \/ write_installer
  \/ jarmod_insert
  \/ create_libraries_dir
  \/ get_javac
  \/ got_javac
  \/ write_source
  \/ \E out \in ExitKinds : compile(out)
  \/ get_java
  \/ got_java
  \/ \E out \in ExitKinds : run(out)
  \/ extract_forge_json
  \/ \E kind \in DownloadKinds \cup {"partial"} : download_library(kind)
  \/ write_classpath
  \/ write_clean_classpath
  \/ write_details
  \/ change_instance_type
  \/ finish_install
  \/ DropForgeReceiver

FNext ==
  \/ \E fv \in ForgeVersionArgs, fs \in SenderStates, js \in {"none", "live"} :
       InstallClient(fv, fs, js)
  \/ ForgeSteps
  \/ JavaSteps /\ UNCHANGED fvars
  \/ ReturnInstallClient

(* ------------------------------------------------------------------ *)
(* Launch-jar synthesizer (fabric/make_launch_jar.rs): data            *)
(* ------------------------------------------------------------------ *)
\* Text is a sequence of characters, each a one-character string; E_ACUTE stands for a
\* character whose UTF-8 encoding takes two bytes.
E_ACUTE == "e'"
Utf8Len(c) == IF c = E_ACUTE THEN 2 ELSE 1

MANIFEST_PATH == <<"M", "E", "T", "A", "-", "I", "N", "F", "/", "M", "A", "N", "I", "F", "E", "S", "T", ".", "M", "F">>
SERVICES_DIR == <<"M", "E", "T", "A", "-", "I", "N", "F", "/", "s", "e", "r", "v", "i", "c", "e", "s", "/">>
MAIN_CLASS_MANIFEST ==
  <<"n", "e", "t", ".", "f", "a", "b", "r", "i", "c", "m", "c", ".", "l", "o", "a", "d", "e", "r", ".", "i", "m", "p", "l", ".", "l", "a", "u", "n", "c", "h", ".">> \o
  <<"s", "e", "r", "v", "e", "r", ".", "F", "a", "b", "r", "i", "c", "S", "e", "r", "v", "e", "r", "L", "a", "u", "n", "c", "h", "e", "r">>
launch_properties_path == <<"f", "a", "b", "r", "i", "c", "-", "s", "e", "r", "v", "e", "r", "-", "l", "a", "u", "n", "c", "h", ".", "p", "r", "o", "p", "e", "r", "t", "i", "e", "s">>

\* the archives of the library files the callers pass
JarA ==
  << [name |-> <<"M", "E", "T", "A", "-", "I", "N", "F", "/">>,
       data |-> <<>>],
     [name |-> <<"M", "E", "T", "A", "-", "I", "N", "F", "/", "M", "A", "N", "I", "F", "E", "S", "T", ".", "M", "F">>,
       data |-> <<"A">>],
     [name |-> <<"M", "E", "T", "A", "-", "I", "N", "F", "/", "s", "e", "r", "v", "i", "c", "e", "s", "/", "S">>,
       data |-> <<"P", "\n", " ", "Q", " ", "#", "c", "\n", "#", "n", "\n", "\n">>],
     [name |-> <<"M", "E", "T", "A", "-", "I", "N", "F", "/", "A", ".", "S", "F">>,
       data |-> <<"s">>],
     [name |-> <<"a", ".", "c", "l", "a", "s", "s">>,
       data |-> <<"A">>] >>

JarB ==
  << [name |-> <<"M", "E", "T", "A", "-", "I", "N", "F", "/", "M", "A", "N", "I", "F", "E", "S", "T", ".", "M", "F">>,
       data |-> <<"B">>],
     [name |-> <<"a", ".", "c", "l", "a", "s", "s">>,
       data |-> <<"B">>],
     [name |-> <<"M", "E", "T", "A", "-", "I", "N", "F", "/", "s", "e", "r", "v", "i", "c", "e", "s", "/", "S">>,
       data |-> <<"Q", "\r", "\n", "R">>],
     [name |-> <<"M", "E", "T", "A", "-", "I", "N", "F", "/", "s", "e", "r", "v", "i", "c", "e", "s", "/", "T">>,
       data |-> <<"#", " ", "n", "o", "n", "e", "\n">>],
     [name |-> <<"M", "E", "T", "A", "-", "I", "N", "F", "/", "B", ".", "E", "C", "x">>,
       data |-> <<"x">>] >>

JarC ==
  << [name |-> <<"f", "a", "b", "r", "i", "c", "-", "s", "e", "r", "v", "e", "r", "-", "l", "a", "u", "n", "c", "h", ".", "p", "r", "o", "p", "e", "r", "t", "i", "e", "s">>,
       data |-> <<"C">>],
     [name |-> <<"M", "E", "T", "A", "-", "I", "N", "F", "/", "s", "e", "r", "v", "i", "c", "e", "s", "/", "x", "/", "U">>,
       data |-> <<"U">>],
     [name |-> <<"l", "i", "b", "/", "M", "E", "T", "A", "-", "I", "N", "F", "/", "C", ".", "R", "S", "A">>,
       data |-> <<"r">>],
     [name |-> <<"b", ".", "c", "l", "a", "s", "s">>,
       data |-> <<"C">>],
     [name |-> <<"M", "E", "T", "A", "-", "I", "N", "F", "/", "s", "e", "r", "v", "i", "c", "e", "s", "/", "T">>,
       data |-> <<"V", "\n">>] >>

JarD ==
  << [name |-> <<"a", ".", "c", "l", "a", "s", "s">>,
       data |-> <<"D">>],
     [name |-> <<"M", "E", "T", "A", "-", "I", "N", "F", "/", "D", ".", "D", "S", "A">>,
       data |-> <<"d">>],
     [name |-> <<"c", ".", "c", "l", "a", "s", "s">>,
       data |-> <<"D">>],
     [name |-> <<"c", ".", "c", "l", "a", "s", "s">>,
       data |-> <<"d">>] >>

JarE == << >>

\* a file name of n characters ending in ".jar"
Letters == <<"a", "b", "c", "d", "e", "f", "g", "h", "i", "j", "k", "l", "m", "n", "o", "p", "q", "r", "s", "t", "u", "v", "w", "x", "y", "z">>
FileName(n) ==
  [k \in 1..n |-> IF k > n - 4 THEN <<".", "j", "a", "r">>[k - (n - 4)]
                  ELSE Letters[((k - 1) % 26) + 1]]

\* library_files: a path (parent directory, file name) and the archive stored there
LibraryFiles ==
  { [parent |-> "libraries/a", file |-> FileName(57), entries |-> JarA],
    [parent |-> "libraries/b", file |-> FileName(58), entries |-> JarB],
    [parent |-> "libraries/c", file |-> FileName(59), entries |-> JarC],
    [parent |-> "libraries/d", file |-> FileName(69), entries |-> JarD],
    [parent |-> "libraries\\e", file |-> <<E_ACUTE, "\\">> \o FileName(56), entries |-> JarE] }

LaunchMainClasses ==
  { <<"K", "n", "o", "t", "S", "e", "r", "v", "e", "r">>,
    <<"Q", "u", "i", "l", "t", "S", "e", "r", "v", "e", "r">> }

(* ------------------------------------------------------------------ *)
(* Launch-jar synthesizer: text and manifest functions                 *)
(* ------------------------------------------------------------------ *)
\* str::len: the number of bytes, one per character and one more per two-byte character
len(s) == Len(s) + Cardinality({k \in 1..Len(s) : Utf8Len(s[k]) = 2})
HasAt(s, i, t) == i >= 1 /\ i + Len(t) - 1 <= Len(s) /\ SubSeq(s, i, i + Len(t) - 1) = t
starts_with(s, t) == HasAt(s, 1, t)
take(s, n) == SubSeq(s, 1, IF n < Len(s) THEN n ELSE Len(s))
skip(s, n) == SubSeq(s, n + 1, Len(s))
find(s, c) == \E k \in 1..Len(s) : s[k] = c

RECURSIVE Concat(_)
Concat(ss) == IF ss = <<>> THEN <<>> ELSE Head(ss) \o Concat(Tail(ss))

RECURSIVE join(_, _)
join(ss, sep) ==
  IF ss = <<>> THEN <<>>
  ELSE IF Len(ss) = 1 THEN ss[1]
  ELSE ss[1] \o sep \o join(Tail(ss), sep)

RECURSIVE split(_, _)
split(s, c) ==
  IF ~find(s, c) THEN <<s>>
  ELSE LET k == CHOOSE k \in 1..Len(s) : s[k] = c /\ \A j \in 1..(k - 1) : s[j] # c
       IN  <<SubSeq(s, 1, k - 1)>> \o split(SubSeq(s, k + 1, Len(s)), c)

\* str::lines: split at "\n", without a final empty line, a "\r" before the "\n" removed
lines(data) ==
  LET parts == split(data, "\n")
      kept == IF parts[Len(parts)] = <<>> THEN SubSeq(parts, 1, Len(parts) - 1) ELSE parts
  IN  [k \in 1..Len(kept) |->
         IF kept[k] # <<>> /\ kept[k][Len(kept[k])] = "\r"
         THEN SubSeq(kept[k], 1, Len(kept[k]) - 1) ELSE kept[k]]

WhiteSpace == {" ", "\t", "\r", "\n"}
trim(s) ==
  LET inked == {k \in 1..Len(s) : s[k] \notin WhiteSpace}
  IN  IF inked = {} THEN <<>>
      ELSE SubSeq(s, CHOOSE k \in inked : \A j \in inked : k <= j,
                     CHOOSE k \in inked : \A j \in inked : k >= j)

\* lines 182-210: split_string
chunks(s, n) ==
  [k \in 1..((Len(s) + n - 1) \div n) |-> SubSeq(s, n * (k - 1) + 1,
                                                 IF n * k < Len(s) THEN n * k ELSE Len(s))]

split_string(s) ==
  IF len(s) <= 70
  THEN <<s>>
  ELSE LET first_part == take(s, 70)
           remaining == skip(s, 70)
       IN  <<first_part>> \o
           (IF len(remaining) <= 69
            THEN << <<" ">> \o remaining >>
            ELSE [k \in 1..Len(chunks(remaining, 69)) |-> <<" ">> \o chunks(remaining, 69)[k]])

\* lines 159-180: ManifestBuilder
ManifestBuilder_new == << <<"M", "a", "n", "i", "f", "e", "s", "t", "-", "V", "e", "r", "s", "i", "o", "n",
                            ":", " ", "1", ".", "0">> >>
add_line(builder, line) == builder \o split_string(line)
build(builder) == join(builder, <<"\n">>) \o <<"\n">>

\* lines 45-64: the Class-Path line of the non-shaded mode
replace(s, from, to) == [k \in 1..Len(s) |-> IF s[k] = from THEN to ELSE s[k]]
file_name(library) == replace(library.file, "\\", "/")
class_path(library_files) ==
  join([k \in 1..Len(library_files) |-> file_name(library_files[k])], <<" ">>)
ClassPathLine(library_files) ==
  <<"C", "l", "a", "s", "s", "-", "P", "a", "t", "h", ":", " ">> \o class_path(library_files)
MainClassLine == <<"M", "a", "i", "n", "-", "C", "l", "a", "s", "s", ":", " ">> \o MAIN_CLASS_MANIFEST

\* lines 42-67: manifest_content
manifest_content_always_class_path(library_files, shade_libraries) ==
  build(add_line(add_line(ManifestBuilder_new, ClassPathLine(library_files)), MainClassLine))

manifest_content(library_files, shade_libraries) ==
  build(add_line(IF shade_libraries THEN ManifestBuilder_new
                 ELSE add_line(ManifestBuilder_new, ClassPathLine(library_files)),
                 MainClassLine))

\* line 76: launch_properties
launch_properties(launch_main_class) ==
  <<"l", "a", "u", "n", "c", "h", ".", "m", "a", "i", "n", "C", "l", "a", "s", "s", "=">>
  \o launch_main_class \o <<"\n">>

\* line 104: ZipFile::is_dir
is_dir(name) == name # <<>> /\ name[Len(name)] = "/"

\* line 108: a service descriptor directly under META-INF/services/
is_service(name) == starts_with(name, SERVICES_DIR) /\ ~find(skip(name, Len(SERVICES_DIR)), "/")

\* line 93: Regex::new(r"META-INF/[^/]+\.(SF|DSA|RSA|EC)") and is_match (line 114), which
\* looks for the pattern anywhere in the name
SignatureExtensions == { <<"S", "F">>, <<"D", "S", "A">>, <<"R", "S", "A">>, <<"E", "C">> }
META_INF == <<"M", "E", "T", "A", "-", "I", "N", "F", "/">>
is_match(name) ==
  \E i \in 1..Len(name) :
    /\ HasAt(name, i, META_INF)
    /\ \E j \in (i + Len(META_INF))..Len(name) :
         /\ \A k \in (i + Len(META_INF))..j : name[k] # "/"
         /\ \E ext \in SignatureExtensions : HasAt(name, j + 1, <<".">> \o ext)

\* lines 142-157: parse_service_definition; services is the map name -> set of providers
EmptyMap == [n \in {} |-> {}]
Providers(data) ==
  {trim(split(lines(data)[k], "#")[1]) : k \in 1..Len(lines(data))} \ {<<>>}
insert_all(services, name, providers) ==
  IF providers = {} THEN services
  ELSE [n \in DOMAIN services \cup {name} |->
          (IF n \in DOMAIN services THEN services[n] ELSE {})
          \cup (IF n = name THEN providers ELSE {})]

parse_service_definition_keep_comments(name, data, services) ==
  insert_all(services, name, {trim(lines(data)[k]) : k \in 1..Len(lines(data))} \ {<<>>})

parse_service_definition(name, data, services) ==
  insert_all(services, name, Providers(data))

\* lines 73, 84: the names make_launch_jar enters in added_entries when it has written
\* the manifest and the launch properties
NoSynthesizedNames == {}

SynthesizedNames == {MANIFEST_PATH, launch_properties_path}

\* lines 130-134: writeln! of every definition, in the iteration order of the HashSet
Orders(set) ==
  {o \in [1..Cardinality(set) -> set] : \A a, b \in 1..Cardinality(set) : a # b => o[a] # o[b]}
ServiceContent(order) == Concat([k \in 1..Len(order) |-> order[k] \o <<"\n">>])

(* ------------------------------------------------------------------ *)
(* Launch-jar synthesizer: state and steps of make_launch_jar          *)
(* ------------------------------------------------------------------ *)
\* number of library files a caller passes at most
MaxJars == 2

VARIABLES
  mpc,            \* position of the running make_launch_jar call
  margs,          \* its arguments: [launch_main_class, library_files, shade_libraries]
  mexists,        \* the output file exists on disk
  zip_writer,     \* the entries written to the output archive, in order
  added_entries,  \* the HashSet of entry names
  services,       \* the HashMap service name -> HashSet of providers
  library_i,      \* index of the library file being read
  entry_i,        \* index of the entry being read in it
  mresult         \* the result of the call

mvars == <<mpc, margs, mexists, zip_writer, added_entries, services, library_i, entry_i, mresult>>
(* ------------------------------------------------------------------ *)
(* Accounts (message_update/accounts.rs): state                        *)
(* ------------------------------------------------------------------ *)
VARIABLES
  accounts,           \* Launcher::accounts: username (modified) -> AccountData
  config_accounts,    \* Launcher::config.accounts: Option of username -> ConfigAccount
  accounts_dropdown,  \* Launcher::accounts_dropdown
  accounts_selected,  \* Launcher::accounts_selected
  state,              \* Launcher::state
  handled             \* the AccountMessage update_account handled last

avars == <<accounts, config_accounts, accounts_dropdown, accounts_selected, state, handled>>

vars == <<jvars, fvars, mvars, avars>>

NoArgs == [launch_main_class |-> <<>>, library_files |-> <<>>, shade_libraries |-> FALSE]

\* the lists of distinct library files, of at most MaxJars files
LibraryLists ==
  {l \in UNION {[1..n -> LibraryFiles] : n \in 0..MaxJars} :
     \A a, b \in DOMAIN l : a # b => l[a] # l[b]}

MInit ==
  /\ mpc = "idle"
  /\ margs = NoArgs
  /\ mexists = FALSE
  /\ zip_writer = <<>>
  /\ added_entries = {}
  /\ services = EmptyMap
  /\ library_i = 0
  /\ entry_i = 0
  /\ mresult = NoResult

MFail(e) ==
  /\ mresult' = Err(e)
  /\ mpc' = "done"

\* line 28: the call
make_launch_jar(launch_main_class, library_files, shade_libraries) ==
  /\ mpc = "idle"
  /\ margs' = [launch_main_class |-> launch_main_class, library_files |-> library_files,
               shade_libraries |-> shade_libraries]
  /\ mpc' = "create"
  /\ UNCHANGED <<mexists, zip_writer, added_entries, services, library_i, entry_i, mresult>>

\* lines 34-40: remove an existing file, create the new one
CreateFile ==
  /\ mpc = "create"
  /\ \/ /\ mexists                           \* remove_file fails
        /\ MFail("Io")
        /\ UNCHANGED mexists
     \/ /\ MFail("Io")                       \* File::create fails
        /\ mexists' = FALSE
     \/ /\ mexists' = TRUE
        /\ mpc' = "manifest"
        /\ UNCHANGED mresult
  /\ UNCHANGED <<margs, zip_writer, added_entries, services, library_i, entry_i>>

start_file(writer, name, data) == Append(writer, [name |-> name, data |-> data])

\* lines 42-73: build and write META-INF/MANIFEST.MF
WriteManifest ==
  /\ mpc = "manifest"
  /\ \/ /\ \E e \in {"Zip", "ZipEntryWriteError"} : MFail(e)
        /\ UNCHANGED <<zip_writer, added_entries>>
     \/ /\ zip_writer' = start_file(zip_writer, MANIFEST_PATH,
                                    manifest_content(margs.library_files, margs.shade_libraries))
        /\ added_entries' = added_entries \cup ({MANIFEST_PATH} \cap SynthesizedNames)
        /\ mpc' = "properties"
        /\ UNCHANGED mresult
  /\ UNCHANGED <<margs, mexists, services, library_i, entry_i>>

\* where the loop over the library files goes after library k
AfterLibrary(k, svc) ==
  IF k < Len(margs.library_files) THEN "library"
  ELSE IF DOMAIN svc = {} THEN "finish" ELSE "services"

\* lines 76-91: write fabric-server-launch.properties; enter the shading loop
WriteLaunchProperties ==
  /\ mpc = "properties"
  /\ \/ /\ \E e \in {"Zip", "ZipEntryWriteError"} : MFail(e)
        /\ UNCHANGED <<zip_writer, added_entries, library_i>>
     \/ /\ zip_writer' = start_file(zip_writer, launch_properties_path,
                                    launch_properties(margs.launch_main_class))
        /\ added_entries' = added_entries \cup ({launch_properties_path} \cap SynthesizedNames)
        /\ IF margs.shade_libraries
           THEN mpc' = AfterLibrary(0, services) /\ library_i' = 1
           ELSE mpc' = "finish" /\ UNCHANGED library_i
        /\ UNCHANGED mresult
  /\ UNCHANGED <<margs, mexists, services, entry_i>>

\* lines 95-98: open the library file and read its directory
OpenLibrary ==
  /\ mpc = "library"
  /\ \/ /\ \E e \in {"Io", "Zip"} : MFail(e)
        /\ UNCHANGED <<library_i, entry_i>>
     \/ /\ IF margs.library_files[library_i].entries = <<>>
           THEN /\ mpc' = AfterLibrary(library_i, services)
                /\ library_i' = library_i + 1
                /\ UNCHANGED entry_i
           ELSE /\ mpc' = "entry"
                /\ entry_i' = 1
                /\ UNCHANGED library_i
        /\ UNCHANGED mresult
  /\ UNCHANGED <<margs, mexists, zip_writer, added_entries, services>>

\* lines 100-124: one entry of the library file
ProcessEntry ==
  LET entry == margs.library_files[library_i].entries[entry_i]
      name == entry.name
      svc == IF ~is_dir(name) /\ is_service(name)
             THEN parse_service_definition(name, entry.data, services)
             ELSE services
      copied == ~is_dir(name) /\ ~is_service(name) /\ ~is_match(name)
                /\ name \notin added_entries
  IN
  /\ mpc = "entry"
  /\ \/ /\ \E e \in {"Zip", "ZipEntryReadError", "ZipEntryWriteError"} :
             /\ e = "ZipEntryReadError" => (~is_dir(name) /\ is_service(name))
             /\ e = "ZipEntryWriteError" => copied
             /\ MFail(e)
        /\ UNCHANGED <<zip_writer, added_entries, services, library_i, entry_i>>
     \/ /\ services' = svc
        /\ added_entries' = IF ~is_dir(name) /\ ~is_service(name) /\ ~is_match(name)
                            THEN added_entries \cup {name} ELSE added_entries
        /\ zip_writer' = IF copied THEN start_file(zip_writer, name, entry.data) ELSE zip_writer
        /\ IF entry_i < Len(margs.library_files[library_i].entries)
           THEN /\ entry_i' = entry_i + 1
                /\ UNCHANGED <<mpc, library_i>>
           ELSE /\ mpc' = AfterLibrary(library_i, svc)
                /\ library_i' = library_i + 1
                /\ UNCHANGED entry_i
        /\ UNCHANGED mresult
  /\ UNCHANGED <<margs, mexists>>

\* lines 128-135: write one merged service descriptor; the HashMap and the HashSet
\* are iterated in an unspecified order
WriteService ==
  /\ mpc = "services"
  /\ \/ /\ \E e \in {"Zip", "ZipEntryWriteError"} : MFail(e)
        /\ UNCHANGED <<zip_writer, services>>
     \/ \E service_name \in DOMAIN services :
          \E order \in Orders(services[service_name]) :
            /\ zip_writer' = start_file(zip_writer, service_name, ServiceContent(order))
            /\ services' = [n \in DOMAIN services \ {service_name} |-> services[n]]
            /\ mpc' = IF DOMAIN services = {service_name} THEN "finish" ELSE "services"
            /\ UNCHANGED mresult
  /\ UNCHANGED <<margs, mexists, added_entries, library_i, entry_i>>

\* lines 138-139: zip_writer.finish()
FinishJar ==
  /\ mpc = "finish"
  /\ \/ MFail("Zip")
     \/ /\ mresult' = Ok("unit")
        /\ mpc' = "done"
  /\ UNCHANGED <<margs, mexists, zip_writer, added_entries, services, library_i, entry_i>>

\* the caller takes the result; the call's locals are gone
ReturnMakeLaunchJar ==
  /\ mpc = "done"
  /\ mpc' = "idle"
  /\ margs' = NoArgs
  /\ zip_writer' = <<>>
  /\ added_entries' = {}
  /\ services' = EmptyMap
  /\ library_i' = 0
  /\ entry_i' = 0
  /\ mresult' = NoResult
  /\ UNCHANGED mexists

MNext ==
  \/ \E launch_main_class \in LaunchMainClasses, library_files \in LibraryLists,
        shade_libraries \in BOOLEAN :
       make_launch_jar(launch_main_class, library_files, shade_libraries)
  \/ CreateFile
  \/ WriteManifest
  \/ WriteLaunchProperties
  \/ OpenLibrary
  \/ ProcessEntry
  \/ WriteService
  \/ FinishJar
  \/ ReturnMakeLaunchJar


(* ------------------------------------------------------------------ *)
(* Accounts: Launcher::update_account                                  *)
(* ------------------------------------------------------------------ *)
MaxEntries == 4

OFFLINE_ACCOUNT_NAME == "(Offline)"
NEW_ACCOUNT_NAME == "+ Add Account"

\* the AccountData a login can deliver
AccountDatas ==
  { [username |-> u, uuid |-> "uuid-" \o u, account_type |-> t] :
      u \in {"alice", "bob"}, t \in {"Microsoft", "ElyBy"} }

\* auth/mod.rs, lines 17-25
get_username_modified(data) ==
  data.username \o (IF data.account_type = "ElyBy" THEN " (elyby)" ELSE "")

\* HashMap::insert and HashMap::remove
insert(map, key, value) ==
  [k \in DOMAIN map \cup {key} |-> IF k = key THEN value ELSE map[k]]
remove(map, key) == [k \in DOMAIN map \ {key} |-> map[k]]

\* Vec::remove(idx)
remove_at(v, idx) == SubSeq(v, 1, idx - 1) \o SubSeq(v, idx + 1, Len(v))

AStart(dropdown) ==
  /\ accounts = <<>>
  /\ config_accounts = [some |-> FALSE, map |-> <<>>]
  /\ accounts_dropdown = dropdown
  /\ accounts_selected = Some(OFFLINE_ACCOUNT_NAME)
  /\ state = "Launch"
  /\ handled = "none"

\* a launcher without accounts: the list holds the two fixed entries
AInit == AStart(<<OFFLINE_ACCOUNT_NAME, NEW_ACCOUNT_NAME>>)

\* lines 199-217: AccountMessage::Response3(Ok(data)) and
\* AccountMessage::ElyByLoginResponse(Ok(Account(data)))
account_response_3(data) ==
  LET username == get_username_modified(data) IN
  /\ Len(accounts_dropdown) < MaxEntries
  /\ accounts_dropdown' = <<data.username>> \o accounts_dropdown
  /\ config_accounts' =
       [some |-> TRUE,
        map |-> insert(config_accounts.map, username,
                       [uuid |-> data.uuid, skin |-> "None",
                        account_type |-> data.account_type])]
  /\ accounts_selected' = Some(username)
  /\ accounts' = insert(accounts, username, data)
  /\ state' = "Launch"
  /\ handled' = "Response3"
  /\ UNCHANGED <<jvars, fvars, mvars>>

\* lines 166-173: AccountMessage::Selected(account), an entry picked from the list
account_selected(account) ==
  /\ \E k \in 1..Len(accounts_dropdown) : accounts_dropdown[k] = account
  /\ IF account = NEW_ACCOUNT_NAME
     THEN state' = "AccountLogin" /\ UNCHANGED accounts_selected
     ELSE accounts_selected' = Some(account) /\ UNCHANGED state
  /\ handled' = "Selected"
  /\ UNCHANGED <<jvars, fvars, mvars, accounts, config_accounts, accounts_dropdown>>

\* lines 39-50: AccountMessage::LogoutCheck, for a selected entry that is not one of
\* the two fixed ones
LogoutCheck ==
  /\ state = "Launch"
  /\ accounts_selected.some
  /\ accounts_selected.v \notin {OFFLINE_ACCOUNT_NAME, NEW_ACCOUNT_NAME}
  /\ state' = "ConfirmAction"
  /\ handled' = "LogoutCheck"
  /\ UNCHANGED <<jvars, fvars, mvars, accounts, config_accounts, accounts_dropdown,
                 accounts_selected>>

\* the `no` of the ConfirmAction: Message::LaunchScreenOpen
LaunchScreenOpen ==
  /\ state \in {"ConfirmAction", "AccountLogin"}
  /\ state' = "Launch"
  /\ handled' = "LaunchScreenOpen"
  /\ UNCHANGED <<jvars, fvars, mvars, accounts, config_accounts, accounts_dropdown,
                 accounts_selected>>

\* lines 51-76: AccountMessage::LogoutConfirm (an error of auth::ms::logout is shown
\* and the handler goes on)
LogoutConfirm ==
  LET username == accounts_selected.v
      found == {i \in 1..Len(accounts_dropdown) : accounts_dropdown[i] = username}
      dropdown == IF found = {} THEN accounts_dropdown
                  ELSE remove_at(accounts_dropdown,
                                 CHOOSE i \in found : \A j \in found : i <= j)
  IN
  /\ state = "ConfirmAction"
  /\ config_accounts' =
       IF config_accounts.some
       THEN [config_accounts EXCEPT !.map = remove(@, username)]
       ELSE config_accounts
  /\ accounts' = remove(accounts, username)
  /\ accounts_dropdown' = dropdown
  /\ accounts_selected' =
       Some(IF dropdown # <<>> THEN Head(dropdown) ELSE OFFLINE_ACCOUNT_NAME)
  /\ state' = "Launch"
  /\ handled' = "LogoutConfirm"
  /\ UNCHANGED <<jvars, fvars, mvars>>

ANext ==
  \/ \E data \in AccountDatas : account_response_3(data)
  \/ \E account \in {OFFLINE_ACCOUNT_NAME, NEW_ACCOUNT_NAME, "alice", "bob"} :
       account_selected(account)
  \/ LogoutCheck
  \/ LaunchScreenOpen
  \/ LogoutConfirm

(* ------------------------------------------------------------------ *)
(* Specifications                                                      *)
(* ------------------------------------------------------------------ *)
\* the platforms the loader installer is exercised on
ForgePlatforms == { [os |-> "linux", arch |-> "x86_64"] }

InitJava == JInit /\ FInit /\ MInit /\ AInit /\ game.id = <<"1", ".", "1", "2", ".", "2">>
SpecJava == InitJava /\ [][JNext /\ UNCHANGED <<fvars, mvars, avars>>]_vars

Init == JInit /\ FInit /\ MInit /\ AInit /\ platform \in ForgePlatforms
Next == FNext /\ UNCHANGED <<mvars, avars>>
Spec == Init /\ [][Next]_vars

InitJar == InitJava /\ platform \in ForgePlatforms
SpecJar == InitJar /\ [][MNext /\ UNCHANGED <<jvars, fvars, avars>>]_vars

InitAccounts == InitJar
SpecAccounts == InitAccounts /\ [][ANext]_vars

(* ------------------------------------------------------------------ *)
(* Properties of the Java provisioner                                  *)
(* ------------------------------------------------------------------ *)
FinishedSent == \E k \in 1..Len(jprog) : jprog[k].kind = "finished"
AllJobsOk == \A i \in Nodes : jobs[i] = "ok"
EnteredInstallJavaFiles == <<"java_list", 0>> \in jnet
SecondCall ==
  /\ jpc = "done"
  /\ jprev.version = jcall.version
  /\ jprev.name = jcall.name

\* C1: a get_java_binary(v, n) call that directly follows a call get_java_binary(v, n)
\* which returned Ok(p) does not enter install_java, makes no network request,
\* creates no install.lock, and returns Ok(p) again.
C1_Idempotent ==
  SecondCall =>
    /\ ~jran
    /\ jnet = {}
    /\ LOCK \notin jfiles[JavaDir] /\ LOCK \notin jfiles[Version]
    /\ jresult = jprev.result

C1_Witness == SecondCall /\ jresult.ok /\ JavaDir \in installed

\* C2: between calls, a version directory that exists and holds no install.lock
\* belongs to a version for which an install_java run has returned Ok.
C2_DirWithoutLockIsInstalled ==
  jpc = "idle" =>
    \A v \in JavaVersion : (v \in jdirs /\ LOCK \notin jfiles[v]) => v \in installed

\* C3: finished() is sent and install.lock is removed only after install_java_files
\* returned Ok; when install_java_files fails the call returns its error, the lock is
\* still there and finished() was not sent.
C3_State ==
  /\ FinishedSent =>
       /\ ~jfailed
       /\ LOCK \notin jfiles[Version]
       /\ AllJobsOk \/ <<"third_party", 0>> \in jnet
  /\ (jpc = "done" /\ EnteredInstallJavaFiles /\ jfailed) =>
       /\ jresult \in {Err("JsonDownload"), Err("Job"), Err("Request"), Err("TarGzExtract"),
                       Err("UnsupportedOnlyJava8"), Err("Io")}
       /\ LOCK \in jfiles[Version]
       /\ ~FinishedSent
  /\ (jpc = "done" /\ \E i \in Nodes : jobs[i] = "err") => jresult = Err("Job")

C3_LockRemovedAfterFilesOk ==
  [] C3_State
  /\ [][ \A v \in JavaVersion :
           (jpc # "idle" /\ LOCK \in jfiles[v] /\ LOCK \notin jfiles'[v]) =>
             /\ v = Version
             /\ ~jfailed /\ ~jfailed'
             /\ AllJobsOk \/ <<"third_party", 0>> \in jnet
             /\ ~FinishedSent /\ FinishedSent' = (jsender # "none") ]_jvars

C3_Witness ==
  /\ jpc = "done" /\ jsender = "live"
  /\ \E i \in Nodes : jobs[i] = "err"
  /\ \E i \in Nodes : jobs[i] = "ok"
  /\ LOCK \in jfiles[Version]

\* C4 as stated: a call that finds install.lock runs the installation again, downloads
\* and writes every File node, and when no step of the run fails returns Ok with the
\* lock removed.
C4_ResumeReturnsOk ==
  (jpc = "done" /\ jincomplete /\ ~jfailed /\ get_url(platform, Version)) =>
    /\ jran
    /\ jresult.ok
    /\ LOCK \notin jfiles[Version]

\* C4 amended: a call that finds install.lock runs the installation again; every File
\* job that succeeds has requested and written its file whatever was on disk; when no
\* step of the run fails, install_java has returned Ok, install.lock is gone, and the
\* call returns Ok exactly when the requested executable exists at the sub-path that
\* get_java_binary selects.
C4_Resume ==
  jincomplete =>
    /\ jran
    /\ \A i \in FileNodes(platform, Version) :
         jobs[i] = "ok" =>
           /\ i \in jwritten
           /\ JavaFile(platform, Version, i).path \in jfiles[Version]
           /\ \E r \in jnet : r[2] = i
    /\ (jpc = "done" /\ ~jfailed) =>
         /\ Version \in installed
         /\ LOCK \notin jfiles[Version]
         /\ get_url(platform, Version) => jwritten = FileNodes(platform, Version)
         /\ LET sub == BinarySubPath(platform, Version, jcall.name, jfiles[JavaDir])
            IN  jresult.ok = (sub.ok /\ sub.val \in jfiles[JavaDir])

C4_Witness ==
  /\ jpc = "done" /\ jpartial /\ ~jfailed
  /\ jwritten = FileNodes(platform, Version)
  /\ jresult.ok
  /\ LOCK \notin jfiles[Version]

(* ------------------------------------------------------------------ *)
(* Properties of the Forge installer                                   *)
(* ------------------------------------------------------------------ *)
InLog(e) == \E k \in 1..Len(flog) : flog[k] = e
Pos(e) == CHOOSE k \in 1..Len(flog) : flog[k] = e
LastLog == flog[Len(flog)]
Returned == fpc = "done" /\ fresult # Panic
ReturnedErr == Returned /\ ~fresult.ok

\* C5: whenever install_client returns Ok, on the jar-mod path as on the library
\* path, forge.lock does not exist.
C5_OkMeansUnlocked == (Returned /\ fresult.ok) => FORGE_LOCK \notin ifiles

\* C6 as stated: whenever install_client returns an error, forge.lock exists.
C6_ErrMeansLocked == ReturnedErr => FORGE_LOCK \in ifiles

\* C6 amended: an install_client call that returns an error never removes forge.lock,
\* and forge.lock exists on return exactly when it existed at the start of the call
\* or create_lock_file succeeded; so every error of a step after create_lock_file
\* leaves the lock, and an error of get_forge_dir, of loading details.json, of
\* create_mods_dir or of create_lock_file itself leaves no lock unless one was there.
C6_ErrKeepsLock ==
  ReturnedErr =>
    /\ (FORGE_LOCK \in ifiles) = (flockStart \/ InLog(Did("create_lock_file")))
    /\ LastLog.step \notin {"get_forge_dir", "load", "create_mods_dir", "create_lock_file"}
         => FORGE_LOCK \in ifiles

C6_Witness ==
  /\ ReturnedErr /\ ~flockStart
  /\ InLog(Failed("download_library"))
  /\ FORGE_LOCK \in ifiles

\* C7: forge.lock is removed only after classpath.txt, clean_classpath.txt and
\* details.json were written and the instance type was changed, in that order; a
\* failure of one of these steps leaves the lock; once the call has created or found
\* the lock, its absence implies all four steps succeeded.
PersistSteps ==
  <<"write_classpath", "write_clean_classpath", "write_details", "change_instance_type">>

PersistedInOrder ==
  /\ \A k \in 1..4 : InLog(Did(PersistSteps[k]))
  /\ \A k \in 1..3 : Pos(Did(PersistSteps[k])) < Pos(Did(PersistSteps[k + 1]))

C7_State ==
  /\ (InLog(Did("create_lock_file")) /\ FORGE_LOCK \notin ifiles) =>
       /\ PersistedInOrder
       /\ LastLog = Did("remove_lock")
       /\ fresult = Ok("()")
  /\ \A k \in 1..4 : InLog(Failed(PersistSteps[k])) => FORGE_LOCK \in ifiles

C7_UnlockAfterPersist ==
  [] C7_State
  /\ [][ (FORGE_LOCK \in ifiles /\ FORGE_LOCK \notin ifiles') =>
           /\ PersistedInOrder
           /\ Pos(Did("change_instance_type")) = Len(flog) ]_vars

C7_Witness ==
  /\ Returned /\ fresult.ok
  /\ FORGE_LOCK \notin ifiles
  /\ InLog(Did("download_library"))

\* C8: the candidates are requested one at a time in list order; every request before
\* the last one made was answered NotFound; the first success ends the loop with Ok,
\* any other error and a NotFound of the last candidate end it with
\* ForgeInstallError::Request; nothing is requested after that.
InUrlLoop == fpc = "try_url"
UrlLoopOk == fpc = "write_installer"
UrlLoopErr == fpc = "done" /\ Len(flog) > 0 /\ LastLog = Failed("download_installer")

C8_InOrderFirstSuccess ==
  /\ Len(freq) <= num_urls
  /\ \A k \in 1..Len(freq) : freq[k].url = urls(installer)[k]
  /\ \A k \in 1..(Len(freq) - 1) : freq[k].kind = "not_found"
  /\ InUrlLoop =>
       /\ Len(freq) = url_i /\ url_i < num_urls
       /\ \A k \in 1..Len(freq) : freq[k].kind = "not_found"
  /\ UrlLoopOk => Len(freq) > 0 /\ freq[Len(freq)].kind = "ok"
  /\ UrlLoopErr =>
       /\ fresult = Err("Request")
       /\ Len(freq) > 0
       /\ \/ freq[Len(freq)].kind = "other"
          \/ freq[Len(freq)].kind = "not_found" /\ Len(freq) = num_urls
  /\ freq # <<>> => (InUrlLoop \/ UrlLoopOk \/ UrlLoopErr)

C8_Witness == UrlLoopOk /\ Len(freq) = 3

\* C9: an explicit loader version is used as it is and the promotions document is not
\* requested; without one the document is requested and the value under
\* "<gameVersion>-latest" is used; when that key is missing the call returns
\* NoForgeVersionFound (it does not panic) and requests no installer.
PromotionsRequested ==
  InLog(Did("download_promotions")) \/ InLog(Failed("download_promotions"))
LatestKey == Str(game.id) \o "-latest"

C9_Step ==
  (fpc = "resolve_version" /\ fpc' # "resolve_version" /\ fresult' # Panic) =>
    IF fver.some
    THEN /\ ~PromotionsRequested'
         /\ fpc' # "done" => installer'.version = fver.v
    ELSE /\ PromotionsRequested'
         /\ fpc' # "done" =>
              \E promos \in PromotionsDocs : <<LatestKey, installer'.version>> \in promos
         /\ (InLog(Did("download_promotions"))' /\ installer' = NoInstaller
               /\ fresult' # Err("ParseInt")) =>
              /\ fresult' = Err("NoForgeVersionFound")
              /\ \E promos \in PromotionsDocs : \A e \in promos : e[1] # LatestKey

C9_State ==
  fresult = Err("NoForgeVersionFound") =>
    /\ fpc = "done"
    /\ LastLog = Failed("get_forge_version")
    /\ freq = <<>>
    /\ ~InLog(Did("download_installer")) /\ ~InLog(Failed("download_installer"))

C9_VersionResolution == [] C9_State /\ [][C9_Step]_vars

C9_Witness == fresult = Err("NoForgeVersionFound") /\ fsender = "live"

\* C10: after the receiver of a progress channel is dropped every later send is
\* ignored: install_client and get_java_binary do not panic because of it.
C10_DroppedReceiverIgnored == fpc = "done" => fresult # Panic

(* ------------------------------------------------------------------ *)
(* Properties of the order of the steps of install_client              *)
(* ------------------------------------------------------------------ *)
\* the stage of install_client a logged step belongs to
Stage(step) ==
  CASE step \in {"get_forge_dir", "load", "create_mods_dir"} -> 0
    [] step = "create_lock_file" -> 1
    [] step \in {"send_P2", "download_promotions", "get_forge_version", "parse_version",
                 "resolve_version"} -> 2
    [] step \in {"send_P3", "download_installer", "write_installer"} -> 3
    [] step = "jarmod_insert" -> 4
    [] step = "create_libraries_dir" -> 5
    [] step \in {"get_javac", "write_source", "send_P4", "compile", "get_java", "run"} -> 6
    [] step = "get_forge_json" -> 7
    [] step \in {"builtin_library", "create_library_dir", "send_P5", "skip_library",
                 "download_library", "library_not_found"} -> 8
    [] step \in {"write_classpath", "write_clean_classpath", "write_details",
                 "change_instance_type"} -> 9
    [] step = "remove_lock" -> 10

Reached(n) == \E k \in 1..Len(flog) : Stage(flog[k].step) >= n
InStage(n) == \E k \in 1..Len(flog) : Stage(flog[k].step) = n
LibrarySteps == {k \in 1..Len(flog) : Stage(flog[k].step) = 8}

\* C11: the steps of a run are performed in the order lock creation, version
\* resolution, installer download, then jar-mod insertion or else compile-and-run
\* (only when the major version is at least 14), descriptor extraction, library
\* downloads, persistence, unlock; a step starts only when every earlier step has
\* succeeded, and a failed step is the last step of the run.
C11_StepOrder ==
  /\ \A i, j \in 1..Len(flog) : i < j => Stage(flog[i].step) <= Stage(flog[j].step)
  /\ \A i \in 1..(Len(flog) - 1) : flog[i].ok
  /\ (Len(flog) > 0 /\ ~LastLog.ok) => fpc = "done" /\ ~fresult.ok
  /\ Reached(2) => InLog(Did("create_lock_file"))
  /\ Reached(3) => InLog(Did("resolve_version"))
  /\ Reached(4) => InLog(Did("download_installer")) /\ InLog(Did("write_installer"))
  /\ InStage(4) => ~Reached(5)
  /\ InStage(6) => installer.major_version >= 14 /\ InLog(Did("create_libraries_dir"))
  /\ (InLog(Did("run")) \/ InLog(Failed("run"))) =>
       InLog(Did("compile")) /\ Pos(Did("compile")) < Len(flog)
  /\ Reached(7) =>
       /\ InLog(Did("create_libraries_dir"))
       /\ InLog(Did("run")) = (installer.major_version >= 14)
  /\ Reached(8) => InLog(Did("get_forge_json"))
  /\ Reached(9) => /\ InLog(Did("get_forge_json"))
                   /\ Cardinality(LibrarySteps) = Len(flibs)
                   /\ \A k \in LibrarySteps : flog[k].ok
  /\ Reached(10) => PersistedInOrder
  /\ (fpc = "done" /\ fresult.ok) =>
       LastLog \in {Did("jarmod_insert"), Did("remove_lock")}

C11_Witness ==
  /\ Returned /\ fresult.ok
  /\ InLog(Did("run")) /\ InLog(Did("download_library"))
  /\ LastLog = Did("remove_lock")

\* C12: once the installer is on disk the jar-mod path is taken exactly when
\* is_legacy_version is true and the id is not "1.5.2"; on that path the installer
\* is inserted as a jar-mod after its download and the call returns without running
\* the installer program, downloading a library or writing classpath.txt,
\* clean_classpath.txt or details.json.
OnJarmodPath == fpc = "jarmod" \/ InStage(4)
OnModernPath == fpc = "libraries_dir" \/ Reached(5)

C12_JarmodPath ==
  /\ InLog(Did("write_installer")) =>
       /\ OnJarmodPath = (is_legacy_version(game) /\ Str(game.id) # "1.5.2")
       /\ OnModernPath = ~(is_legacy_version(game) /\ Str(game.id) # "1.5.2")
  /\ OnJarmodPath => InLog(Did("write_installer"))
  /\ InStage(4) =>
       /\ fpc = "done"
       /\ LastLog.step = "jarmod_insert"
       /\ Pos(Did("write_installer")) = Len(flog) - 1
       /\ fresult = IF LastLog.ok THEN Ok("()") ELSE Err("JarMod")
       /\ ~Reached(5)
       /\ flibs = <<>> /\ classpath = <<>> /\ clean_classpath = <<>>
       /\ result = "none" /\ output = NoOutput

C12_Witness ==
  /\ Returned /\ fresult.ok
  /\ LastLog = Did("jarmod_insert")
  /\ Str(game.id) = "1.4.7"

\* C13: the compiler runs before the installer program, which is executed only after
\* the compiler exited successfully; a non-zero exit of the compiler makes the call
\* return CompileError and a non-zero exit of the installer program InstallerError;
\* in both cases no library is downloaded and forge.lock remains.
C13_ExitErrors ==
  /\ (InLog(Did("run")) \/ InLog(Failed("run"))) => InLog(Did("compile"))
  /\ (fpc = "done" /\ output.status = "nonzero") =>
       /\ LastLog \in {Failed("compile"), Failed("run")}
       /\ fresult = IF LastLog.step = "compile" THEN Err("CompileError")
                    ELSE Err("InstallerError")
       /\ ~Reached(7)
       /\ FORGE_LOCK \in ifiles

\* C14: get_forge_json returns a descriptor whenever the archive holds version.json
\* in the flat schema or install_profile.json in the wrapped schema: when it fails on
\* an archive that could be opened, neither entry matches its schema.
C14_DescriptorWhenOneMatches ==
  (fpc = "done" /\ LastLog = Failed("get_forge_json") /\ zip.zip) =>
    /\ zip.version_json # "flat"
    /\ zip.install_profile # "wrapped"

(* ------------------------------------------------------------------ *)
(* Properties of the libraries and of the classpath                    *)
(* ------------------------------------------------------------------ *)
Range(seq) == {seq[k] : k \in 1..Len(seq)}
ClientRequired(l) == l.clientreq # "false"
NotClient == {l \in Range(forge_json) : ~ClientRequired(l)}
NumClient == Cardinality({k \in 1..Len(forge_json) : ClientRequired(forge_json[k])})
ItemOf(l) == classpath_item(get_filename_and_path(l))
LineOf(l) == Join(l.class, ".") \o ":" \o l.lib
P5Sent == {k \in 1..Len(fprog) : fprog[k].kind = "P5DownloadingLibrary"}
LibrariesOver == fpc = "write_classpath" \/ Reached(9)

\* C15: a library with clientreq false is never downloaded, never appended to the
\* classpath or the clean classpath and not counted in out_of of the
\* P5DownloadingLibrary events; every library with clientreq true or absent is
\* processed.
C15_ClientLibraries ==
  /\ \A ls \in Descriptors : \A l \in Range(ls) :
       ~ClientRequired(l) => dest(get_filename_and_path(l)) \notin ifiles
  /\ flibs = SelectSeq(forge_json, ClientRequired)
  /\ \A l \in NotClient :
       /\ ItemOf(l) \notin Range(classpath)
       /\ LineOf(l) \notin Range(clean_classpath)
  /\ \A k \in P5Sent : fprog[k].out_of = NumClient /\ fprog[k].num \in 1..NumClient
  /\ LibrariesOver =>
       /\ lib_i = NumClient
       /\ Len(clean_classpath) = NumClient
       /\ \A l \in Range(forge_json) :
            ClientRequired(l) => LineOf(l) \in Range(clean_classpath)

C15_Witness ==
  /\ Returned /\ fresult.ok
  /\ NotClient # {}
  /\ Cardinality(P5Sent) = NumClient - 1
  /\ Len(classpath) = NumClient

\* C16: when the download of a library answers NotFound the library is skipped (it
\* is not appended to the classpath and the install goes on with the next library);
\* any other download error ends install_client with that error, forge.lock stays
\* and classpath.txt, clean_classpath.txt and details.json are not written.
DownloadAttempted == fpc = "library" /\ flog' # flog /\ result' # "none"

C16_Step ==
  DownloadAttempted =>
    CASE result' = "not_found" ->
           /\ classpath' = classpath
           /\ lib_i' = lib_i + 1
           /\ fpc' = IF lib_i' = Len(flibs) THEN "write_classpath" ELSE "library"
           /\ fresult' = NoResult
      [] result' = "ok" ->
           /\ classpath' = Append(classpath, ItemOf(flibs[lib_i + 1]))
           /\ lib_i' = lib_i + 1
           /\ fresult' = NoResult
      [] OTHER ->
           /\ classpath' = classpath
           /\ fpc' = "done"
           /\ fresult' = Err("Request")
           /\ FORGE_LOCK \in ifiles'
           /\ ~Reached(9)'

C16_State ==
  (fpc = "done" /\ LastLog = Failed("download_library")) =>
    /\ result \notin {"ok", "not_found", "none"}
    /\ fresult = Err("Request")
    /\ FORGE_LOCK \in ifiles
    /\ ~Reached(9)

C16_NotFoundSkipsOthersAbort == [] C16_State /\ [][C16_Step]_vars

C16_Witness ==
  /\ Returned /\ fresult.ok
  /\ InLog(Did("library_not_found"))
  /\ result = "ok"
  /\ Len(classpath) = 1

\* the log entries of the library steps, one for each library processed so far
LibLog == SelectSeq(flog, LAMBDA e : Stage(e.step) = 8)
NotFoundSkipped == {k \in 1..Len(LibLog) : LibLog[k].step = "library_not_found"}
Appended ==
  {k \in 1..Len(LibLog) :
     \/ LibLog[k] \in {Did("skip_library"), Did("download_library")}
     \/ LibLog[k] = Did("builtin_library") /\ installer.major_version > 48}

\* the classpath items of the libraries flibs[1..k] whose index is in kept, in order
RECURSIVE ItemsOf(_, _)
ItemsOf(k, kept) ==
  IF k = 0 THEN <<>>
  ELSE ItemsOf(k - 1, kept) \o (IF k \in kept THEN <<ItemOf(flibs[k])>> ELSE <<>>)

\* C17 as stated: after the loader prefix the classpath holds exactly the client
\* libraries that were not skipped on NotFound, in declaration order.
C17_AllNotSkippedInOrder ==
  LibrariesOver =>
    classpath = InitialClasspath(installer)
                  \o ItemsOf(Len(flibs), (1..Len(flibs)) \ NotFoundSkipped)

\* C17 amended: after the loader prefix the classpath holds, in declaration order,
\* exactly the client libraries that download_library appended: those that were
\* downloaded or already on disk, and the loader's own library
\* (net.minecraftforge:forge) only when the major version is above 48; a library
\* answered NotFound and the loader's own library at major version 48 or below do
\* not appear.
C17_AppendedInOrder ==
  InLog(Did("get_forge_json")) =>
    /\ Len(LibLog) = IF fpc = "done" /\ ~LastLog.ok /\ Stage(LastLog.step) = 8
                     THEN lib_i + 1 ELSE lib_i
    /\ classpath = InitialClasspath(installer) \o ItemsOf(Len(LibLog), Appended)

C17_Witness ==
  /\ Returned /\ fresult.ok
  /\ InLog(Did("builtin_library")) /\ installer.major_version > 48
  /\ Len(classpath) = 2

\* the bytes of classpath.txt: the entries, each ending in the separator, concatenated
Bytes(cp) == Join(cp, "")
ClasspathWritten == InLog(Did("write_classpath"))
Bundled == {k \in 1..Len(flibs) : IsForgeItself(flibs[k])}
KeptBundled == IF installer.major_version > 48 THEN {} ELSE Bundled
PathOf(l) ==
  LET fp == get_filename_and_path(l) IN "../forge/libraries/" \o fp.path \o "/" \o fp.file

\* the bytes of the entries of the libraries flibs[1..k] whose index is in kept
RECURSIVE BytesOf(_, _)
BytesOf(k, kept) ==
  IF k = 0 THEN ""
  ELSE BytesOf(k - 1, kept)
         \o (IF k \in kept THEN PathOf(flibs[k]) \o CLASSPATH_SEPARATOR ELSE "")

\* C18 as stated: the bytes written to classpath.txt are determined by the game, the
\* loader version and the ordered library list alone; they are then those of the run
\* in which every library is fetched.
C18_SameListSameBytes ==
  ClasspathWritten =>
    Bytes(classpath) =
      Bytes(InitialClasspath(MakeInstaller(installer.version)))
        \o BytesOf(Len(flibs), (1..Len(flibs)) \ KeptBundled)

\* C18 amended: the bytes written to classpath.txt are determined by the game, the
\* loader version, the ordered library list and the set of libraries skipped on a
\* NotFound answer: two runs that agree on these write byte-identical contents.
C18_SameListSameSkipsSameBytes ==
  ClasspathWritten =>
    Bytes(classpath) =
      Bytes(InitialClasspath(MakeInstaller(installer.version)))
        \o BytesOf(Len(flibs), (1..Len(flibs)) \ (KeptBundled \cup NotFoundSkipped))

C18_Witness ==
  /\ ClasspathWritten
  /\ NotFoundSkipped # {}
  /\ Len(classpath) = Len(flibs)

\* C19: no archive path occurs twice in the classpath that is written, also when the
\* descriptor declares a library more than once.
C19_NoDuplicatePath ==
  ClasspathWritten =>
    \A i, j \in 1..Len(classpath) : i # j => classpath[i] # classpath[j]

\* C20 as stated: the download of the loader's own library is skipped only when the
\* major version is above 48, and a library skipped as bundled is appended to the
\* classpath.
C20_BundledSkipAboveThreshold ==
  \A k \in 1..Len(LibLog) :
    LibLog[k] = Did("builtin_library") =>
      /\ installer.major_version > 48
      /\ ItemOf(flibs[k]) \in Range(classpath)

\* C20 amended: download_library never downloads the loader's own library
\* (net.minecraftforge:forge), whatever the major version: it sends no progress
\* event, makes no request and writes no file for it, and records it in the clean
\* classpath; it appends it to the classpath exactly when the major version is above
\* 48. No other library is treated as bundled.
LibraryStep == fpc = "library" /\ flog' # flog

C20_Step ==
  LibraryStep =>
    LET l == flibs[lib_i + 1] IN
    IF IsForgeItself(l)
    THEN /\ LastLog' = Did("builtin_library")
         /\ ifiles' = ifiles /\ ipartial' = ipartial
         /\ fprog' = fprog
         /\ result' = "none"
         /\ lib_i' = lib_i + 1
         /\ clean_classpath' = Append(clean_classpath, LineOf(l))
         /\ classpath' = IF installer.major_version > 48
                         THEN Append(classpath, ItemOf(l)) ELSE classpath
    ELSE LastLog'.step # "builtin_library"

C20_BundledNeverDownloaded == [][C20_Step]_vars

C20_Witness ==
  /\ ClasspathWritten
  /\ InLog(Did("builtin_library"))
  /\ installer.major_version = 14
  /\ Len(classpath) = 2

\* C21: a library file that a failed attempt left partially written at its
\* destination is downloaded again by the next run before it is added to the
\* classpath: no library that a run adds as already existing is a partial file.
C21_PartialDownloadedAgain ==
  \A k \in 1..Len(LibLog) :
    LibLog[k] = Did("skip_library") =>
      dest(get_filename_and_path(flibs[k])) \notin ipartial

(* ------------------------------------------------------------------ *)
(* The batch of java_install_fn jobs                                   *)
(* ------------------------------------------------------------------ *)
\* the GenericProgress messages the jobs of the batch handed to the channel, in order
FileMessages == SelectSeq(jprog, LAMBDA msg : msg.kind = "file")
Started == {i \in Nodes : jobs[i] # "pending"}

Pending == {i \in Nodes : jobs[i] = "pending"}
Finished == {i \in Nodes : jobs[i] \in {"ok", "err"}}

C24_RawOnlyAsFallback ==
  \A i \in Finished :
    LET f == JavaFile(platform, Version, i) IN
    (jpc = "jobs" /\ f.type = "file") =>
      /\ <<"lzma", i>> \in jnet <=> f.lzma
      /\ <<"raw", i>> \in jnet <=> (~f.lzma \/ janswer[i] = "bad")
      /\ janswer[i] = "ok" => <<"raw", i>> \notin jnet
      /\ janswer[i] = "fail" => (<<"raw", i>> \notin jnet /\ jobs[i] = "err")
      /\ f.lzma <=> janswer[i] # "none"

\* a job whose lzma payload did not decompress took the raw URL and succeeded, in a
\* batch where a node without lzma variant was downloaded from the raw URL
C24_Witness ==
  /\ jpc = "jobs"
  /\ \E i \in Finished :
       /\ JavaFile(platform, Version, i).lzma
       /\ janswer[i] = "bad"
       /\ jobs[i] = "ok"
  /\ \E k \in Finished :
       /\ JavaFile(platform, Version, k).type = "file"
       /\ ~JavaFile(platform, Version, k).lzma
       /\ jobs[k] = "ok"

(* ------------------------------------------------------------------ *)
(* The platform remap and the executable path                          *)
(* ------------------------------------------------------------------ *)
IsWindowsArm(p) == p.os = "windows" /\ p.arch = "aarch64"
IsMacArm(p) == p.os = "macos" /\ p.arch = "aarch64"

\* C25: on the platform of the build the remap yields a JavaVersion for each of the
\* four versions; on Windows aarch64 the result is Java17 or Java21 (Java21 only for
\* Java21), on macOS aarch64 it is never Java16 (Java16 becomes Java17), on every other
\* platform it is the identity, and applying it twice gives what applying it once
\* gives; a call installs into no version but the remapped one.
C25_RemapTotalIdempotent ==
  /\ \A v \in JavaVersion :
       LET w == Remap(platform, v) IN
       /\ w \in JavaVersion
       /\ IsWindowsArm(platform) => w = (IF v = "Java21" THEN "Java21" ELSE "Java17")
       /\ IsMacArm(platform) => w = (IF v = "Java16" THEN "Java17" ELSE v)
       /\ (~IsWindowsArm(platform) /\ ~IsMacArm(platform)) => w = v
       /\ Remap(platform, w) = w
  /\ jran => Version = Remap(platform, jcall.version)
  /\ installed \subseteq {Remap(platform, v) : v \in RequestVersions}
  /\ jdirs \subseteq {Remap(platform, v) : v \in RequestVersions}

\* on Windows aarch64 a call for Java8 has installed Java17
C25_Witness ==
  /\ IsWindowsArm(platform)
  /\ jcall.version = "Java8"
  /\ jran /\ jpc = "resolve"
  /\ "Java17" \in installed /\ "Java8" \notin jdirs

\* the paths get_java_binary can return for an executable name: bin/<name> and the
\* conventional sub-path of the platform
Candidates(p, v, name) ==
  <<"bin/" \o name>> \o
  (IF p.os = "windows" THEN <<"bin/" \o name \o ".exe">>
   ELSE IF p.os = "macos"
        THEN <<(IF p.arch = "aarch64" /\ v = "Java8" THEN "" ELSE "jre.bundle/")
               \o "Contents/Home/bin/" \o name>>
   ELSE IF p.os = "linux" /\ p.arch = "arm" THEN <<"jdk1.8.0_231/" \o name>>
   ELSE <<>>)

\* C26: a call that got past the install check returns the first candidate path that
\* exists, and fails with NoJavaBinFound when no candidate exists, on every platform.
C26_FirstExistingElseNoJavaBinFound ==
  (jpc = "done" /\ ~jfailed) =>
    LET existing == SelectSeq(Candidates(platform, Version, jcall.name),
                              LAMBDA c : c \in jfiles[JavaDir])
    IN  IF existing # <<>>
        THEN jresult = Ok("java_installs/" \o JavaDir \o "/" \o existing[1])
        ELSE jresult = Err("NoJavaBinFound")

(* ------------------------------------------------------------------ *)
(* Properties of the launch-jar synthesizer                            *)
(* ------------------------------------------------------------------ *)
\* a shading call has finished the archive
Shaded == mpc = "done" /\ mresult.ok /\ margs.shade_libraries
InputEntries == Concat([k \in 1..Len(margs.library_files) |-> margs.library_files[k].entries])
InputFiles == SelectSeq(InputEntries, LAMBDA e : ~is_dir(e.name))
OutNames == {zip_writer[k].name : k \in 1..Len(zip_writer)}
Written(name) == {k \in 1..Len(zip_writer) : zip_writer[k].name = name}
TheEntry(name) == zip_writer[CHOOSE k \in Written(name) : TRUE]
FirstInput(name) ==
  InputFiles[CHOOSE k \in 1..Len(InputFiles) :
               /\ InputFiles[k].name = name
               /\ \A j \in 1..(k - 1) : InputFiles[j].name # name]

\* the provider names a service descriptor lists: of every line the part before the
\* first '#', without surrounding white space, if anything is left
BeforeComment(line) ==
  IF find(line, "#")
  THEN take(line, (CHOOSE k \in 1..Len(line) :
                     line[k] = "#" /\ \A j \in 1..(k - 1) : line[j] # "#") - 1)
  ELSE line
Listed(data) == {trim(BeforeComment(lines(data)[k])) : k \in 1..Len(lines(data))} \ {<<>>}
ServiceNames == {InputFiles[k].name : k \in {j \in 1..Len(InputFiles) : is_service(InputFiles[j].name)}}
Union(name) ==
  UNION {Listed(InputFiles[k].data) : k \in {j \in 1..Len(InputFiles) : InputFiles[j].name = name}}
MergedLines(name) ==
  /\ Cardinality(Written(name)) = 1
  /\ LET out == lines(TheEntry(name).data) IN
     /\ {out[k] : k \in 1..Len(out)} = Union(name)
     /\ \A a, b \in 1..Len(out) : a # b => out[a] # out[b]

\* C27 as stated: in shaded mode, for every service descriptor name directly under
\* META-INF/services/ in any input archive the output holds exactly one entry of that
\* name, whose lines are the union of the providers the inputs list, each once.
C27_EveryServiceNameMerged ==
  Shaded => \A name \in ServiceNames : MergedLines(name)

\* C27: in shaded mode, for every service descriptor name directly under
\* META-INF/services/ for which some input archive lists a provider the output holds
\* exactly one entry of that name, whose lines are the union of the providers the
\* inputs list under that name (comment stripped, trimmed, non-empty), each once; a
\* descriptor name for which no input lists a provider has no entry in the output.
C27_ServicesWithProvidersMerged ==
  Shaded => \A name \in ServiceNames :
              IF Union(name) # {} THEN MergedLines(name) ELSE Written(name) = {}

\* two archives list providers for the same service, one of them in both
C27_Witness ==
  /\ Shaded
  /\ \E name \in ServiceNames :
       /\ Cardinality(Union(name)) = 3
       /\ Cardinality({k \in 1..Len(InputFiles) : InputFiles[k].name = name}) = 2
       /\ Cardinality(Written(name)) = 1

SignatureName(name) ==
  /\ starts_with(name, META_INF)
  /\ LET rest == skip(name, Len(META_INF)) IN
     /\ ~find(rest, "/")
     /\ \E ext \in SignatureExtensions :
          /\ Len(rest) >= Len(ext) + 2
          /\ HasAt(rest, Len(rest) - Len(ext), <<".">> \o ext)

\* C29: in shaded mode an input entry that is no directory and no service descriptor
\* is left out of the output exactly when its name has the form
\* META-INF/<file>.SF, .DSA, .RSA or .EC with no '/' in <file>; every other one is in
\* the output.
C29_DroppedIffSignatureName ==
  Shaded =>
    \A k \in 1..Len(InputFiles) :
      ~is_service(InputFiles[k].name) =>
        (InputFiles[k].name \notin OutNames <=> SignatureName(InputFiles[k].name))

\* the lines add_line was called with
AddedLines ==
  IF margs.shade_libraries THEN {MainClassLine}
  ELSE {ClassPathLine(margs.library_files), MainClassLine}
Unfolded(out) == out[1] \o Concat([k \in 1..(Len(out) - 1) |-> Tail(out[k + 1])])

\* C30: a manifest line of more than 70 characters is emitted as a first line of
\* exactly 70 characters and continuation lines of one space and at most 69
\* characters, all but the last with 69; a line of at most 70 characters is emitted
\* unchanged; the first line followed by the continuation lines without their space
\* is the original line.
C30_Folded ==
  zip_writer # <<>> =>
    \A line \in AddedLines :
      LET out == split_string(line) IN
      /\ IF Len(line) > 70
         THEN /\ Len(out) >= 2
              /\ Len(out[1]) = 70
              /\ \A k \in 2..Len(out) :
                   /\ out[k][1] = " "
                   /\ Len(out[k]) >= 2 /\ Len(out[k]) <= 70
                   /\ k < Len(out) => Len(out[k]) = 70
         ELSE out = <<line>>
      /\ Unfolded(out) = line

\* the manifest a call has written, as the lines of the file and as the header lines
\* a manifest reader sees (a line that begins with a space continues the line before)
TheManifest == zip_writer[1].data
HeaderStarts(p) == {k \in 1..Len(p) : p[k] = <<>> \/ p[k][1] # " "}
Header(p, k) ==
  LET e == CHOOSE e \in k..Len(p) :
             /\ \A j \in (k + 1)..e : j \notin HeaderStarts(p)
             /\ e = Len(p) \/ (e + 1) \in HeaderStarts(p)
  IN  p[k] \o Concat([j \in 1..(e - k) |-> Tail(p[k + j])])
Headers(data) == {Header(lines(data), k) : k \in HeaderStarts(lines(data))}
FileLines(data) == {lines(data)[k] : k \in 1..Len(lines(data))}
CLASS_PATH_KEY == <<"C", "l", "a", "s", "s", "-", "P", "a", "t", "h", ":">>
MAIN_CLASS_KEY == <<"M", "a", "i", "n", "-", "C", "l", "a", "s", "s", ":">>

\* C31 as stated: the written manifest contains the line
\* "Main-Class: net.fabricmc.loader.impl.launch.server.FabricServerLauncher".
C31_MainClassLineInFile ==
  zip_writer # <<>> => MainClassLine \in FileLines(TheManifest)

\* C31: the written manifest has exactly one Main-Class header, whose value (read
\* with its continuation line) is the server launcher whatever launch_main_class is;
\* it has a Class-Path header exactly when shade_libraries is false; launch_main_class
\* goes into fabric-server-launch.properties only.
C31_MainClassHeader ==
  zip_writer # <<>> =>
    /\ zip_writer[1].name = MANIFEST_PATH
    /\ {h \in Headers(TheManifest) : starts_with(h, MAIN_CLASS_KEY)} = {MainClassLine}
    /\ (\E h \in Headers(TheManifest) : starts_with(h, CLASS_PATH_KEY))
         <=> ~margs.shade_libraries
    /\ \A h \in Headers(TheManifest) :
         starts_with(h, CLASS_PATH_KEY) => h = ClassPathLine(margs.library_files)
    /\ Len(zip_writer) >= 2 =>
         zip_writer[2] = [name |-> launch_properties_path,
                          data |-> <<"l", "a", "u", "n", "c", "h", ".", "m", "a", "i", "n", "C",
                                     "l", "a", "s", "s", "=">>
                                   \o margs.launch_main_class \o <<"\n">>]

\* a shading call and a main class other than the launcher's: both files written
C31_Witness ==
  /\ mpc = "done" /\ mresult.ok
  /\ margs.shade_libraries
  /\ Len(margs.library_files) = 2
  /\ margs.launch_main_class # MAIN_CLASS_MANIFEST
  /\ Len(zip_writer) >= 2

(* ------------------------------------------------------------------ *)
(* The short-form identifier and the loader's own classpath entry      *)
(* ------------------------------------------------------------------ *)
IdentifierOf(g, l) == Str(g \o <<"-">> \o l)
OwnJarEntry(id) ==
  "../forge/libraries/net/minecraftforge/forge/" \o id \o "/forge-" \o id \o ".jar" \o ":"
Is_1_12_2_with_14_23_5 ==
  /\ game.id = <<"1", ".", "1", "2", ".", "2">>
  /\ installer.version = <<"1", "4", ".", "2", "3", ".", "5">>

\* C32: the installer's short-form identifier is "g-l" for game version g and loader
\* version l ("1.12.2-14.23.5" for 1.12.2 and 14.23.5), and for loader major versions
\* 14 to 38 the classpath, once the installer has run, begins with the entry
\* "../forge/libraries/net/minecraftforge/forge/<g-l>/forge-<g-l>.jar" and the path
\* separator, every library entry coming after it.
C32_ShortVersionAndOwnJar ==
  installer # NoInstaller =>
    /\ installer.short_version = IdentifierOf(game.id, installer.version)
    /\ Is_1_12_2_with_14_23_5 => installer.short_version = "1.12.2-14.23.5"
    /\ (installer.major_version >= 14 /\ installer.major_version <= 38) =>
         /\ (classpath # <<>> \/ LibLog # <<>>) =>
              /\ classpath # <<>>
              /\ classpath[1] = OwnJarEntry(IdentifierOf(game.id, installer.version))
              /\ \A k \in 2..Len(classpath) : classpath[k] # classpath[1]
         /\ Is_1_12_2_with_14_23_5 =>
              \A k \in 1..Len(classpath) :
                k = 1 <=> classpath[k] =
                  "../forge/libraries/net/minecraftforge/forge/1.12.2-14.23.5/forge-1.12.2-14.23.5.jar:"

\* loader 14.23.5 for 1.12.2: a library entry was appended after the loader's own jar
C32_Witness ==
  /\ installer # NoInstaller
  /\ Is_1_12_2_with_14_23_5
  /\ Len(classpath) >= 2
  /\ fpc = "done" /\ fresult.ok

\* C33: a call whose requested version the platform remaps to another one, and whose
\* installation ran without any failure, returns Ok with a path inside the installed
\* runtime.
C33_RemappedInstallResolves ==
  (jpc = "done" /\ jran /\ ~jfailed /\ Version # jcall.version) =>
    /\ jresult.ok
    /\ JavaDir \in jdirs

\* C34: under every interleaving of the jobs of a batch, a File job whose download
\* succeeded comes to its write only when the Directory job of its parent path has
\* created that directory.
C34_ParentBeforeWrite ==
  [][ \A i \in Nodes :
        (/\ jpc = "jobs"
         /\ JavaFile(platform, Version, i).type = "file"
         /\ jobs[i] = "started"
         /\ janswer'[i] = "ok")
        => JavaFile(platform, Version, i).parent \in jfiles[Version] ]_vars

\* C35: for the eight candidates of download_forge_installer the panic that follows the
\* loop of try_downloading_from_urls is never reached, whatever each candidate answers:
\* the loop is left with Ok or with ForgeInstallError::Request, and when every candidate
\* was tried that error is the NotFound of the last one.
Exhausted == Len(freq) = num_urls /\ \A k \in 1..num_urls : freq[k].kind = "not_found"

C35_PanicUnreachable ==
  /\ num_urls > 0
  /\ installer # NoInstaller => Len(urls(installer)) = num_urls
  /\ fpc = "try_url" => url_i < num_urls
  /\ ~InLog(Failed("retrying_downloads"))
  /\ InLog(Failed("download_installer")) => fresult = Err("Request")
  /\ Exhausted =>
       /\ UrlLoopErr /\ fresult = Err("Request")
       /\ freq[num_urls].url = urls(installer)[num_urls]

C35_Witness == Exhausted /\ fpc = "done" /\ fresult = Err("Request")

\* C36: when forge.lock of an earlier failed attempt exists at the start of
\* install_client, create_lock_file succeeds and leaves the instance's files as they
\* are, the call performs every step from the first one on, and a call that succeeds
\* on the library path ends with forge.lock absent, whether or not the lock was there
\* at its start.
ModernSteps ==
  <<"get_forge_dir", "load", "create_mods_dir", "create_lock_file", "resolve_version",
    "download_installer", "write_installer", "create_libraries_dir", "get_forge_json",
    "write_classpath", "write_clean_classpath", "write_details", "change_instance_type",
    "remove_lock">>

RanAllSteps ==
  /\ \A k \in 1..Len(flog) : flog[k].ok
  /\ \A k \in 1..4 : flog[k].step = ModernSteps[k]
  /\ \A k \in 1..Len(ModernSteps) : InLog(Did(ModernSteps[k]))
  /\ \A k \in 1..(Len(ModernSteps) - 1) :
       Pos(Did(ModernSteps[k])) < Pos(Did(ModernSteps[k + 1]))

ModernOk == Returned /\ fresult.ok /\ ~TakesJarmodPath

C36_LockStep ==
  (fpc = "create_lock_file" /\ fpc' # fpc /\ FORGE_LOCK \in ifiles) =>
    /\ flockStart
    /\ flog' = Append(flog, Did("create_lock_file"))
    /\ fpc' = "resolve_version"
    /\ fresult' = fresult
    /\ ifiles' = ifiles

C36_LockState ==
  /\ (flockStart /\ fpc \notin {"idle", "get_forge_dir", "load", "create_mods_dir",
                                "create_lock_file"} /\ Len(flog) >= 4) =>
       flog[4] = Did("create_lock_file")
  /\ ModernOk => (RanAllSteps /\ FORGE_LOCK \notin ifiles)

C36_LeftoverLock == [] C36_LockState /\ [][C36_LockStep]_vars

C36_Witness == flockStart /\ ModernOk /\ FORGE_LOCK \notin ifiles /\ Len(flibs) = 2

\* C37: the job of a Link node creates nothing in the install directory and requests
\* nothing, adds one to the shared counter when it starts and ends with Ok; a batch
\* whose manifest has a Link node and whose jobs all succeed is followed by the removal
\* of install.lock, and the link's path is not in the install directory.
LinkNodes == {i \in Nodes : JavaFile(platform, Version, i).type = "link"}

C37_LinkStep ==
  \A i \in LinkNodes :
    /\ (jobs[i] = "pending" /\ jobs'[i] = "started") =>
         /\ file_num' = file_num + 1
         /\ jfiles' = jfiles /\ jdirs' = jdirs /\ jnet' = jnet
    /\ (jobs[i] = "started" /\ jobs'[i] # "started") =>
         /\ jobs'[i] = "ok"
         /\ jfailed' = jfailed
         /\ file_num' = file_num
         /\ jfiles' = jfiles /\ jdirs' = jdirs /\ jnet' = jnet /\ jwritten' = jwritten

C37_LinkState ==
  /\ (jpc = "jobs" /\ BatchOver /\ ~ErrorObserved) => (AllJobsOk /\ file_num = NumNodes)
  /\ (jpc \in {"remove_lock", "resolve"} /\ jran /\ AllJobsOk) =>
       /\ ~jfailed
       /\ \A i \in LinkNodes : JavaFile(platform, Version, i).path \notin jfiles[Version]
  /\ (jpc = "resolve" /\ jran /\ AllJobsOk) =>
       /\ LOCK \notin jfiles[Version]
       /\ Version \in installed

C37_LinkDoesNothing == [] C37_LinkState /\ [][C37_LinkStep]_vars

C37_Witness ==
  /\ jpc = "resolve" /\ jran /\ AllJobsOk /\ LinkNodes # {}
  /\ LOCK \notin jfiles[Version]

\* C38: the lines written to clean_classpath.txt are the "group:artifact" of the
\* client-required libraries of the descriptor, one line per declared library and in
\* declaration order, whatever the downloads answered: the loader's own library and the
\* libraries skipped after a NotFound have their line although they have no entry in
\* the classpath.
CleanLines(ls) == [k \in 1..Len(ls) |-> LineOf(ls[k])]
CleanWritten ==
  InLog(Did("write_clean_classpath")) \/ InLog(Failed("write_clean_classpath"))

C38_CleanClasspathLines ==
  /\ Len(clean_classpath) <= Len(flibs)
  /\ clean_classpath = CleanLines(SubSeq(flibs, 1, Len(clean_classpath)))
  /\ (fpc = "write_clean_classpath" \/ CleanWritten) =>
       clean_classpath = CleanLines(SelectSeq(forge_json, ClientRequired))

C38_Witness ==
  /\ InLog(Did("write_clean_classpath"))
  /\ InLog(Did("library_not_found"))
  /\ InLog(Did("builtin_library"))
  /\ Len(clean_classpath) = Len(flibs) /\ Len(classpath) < Len(flibs)
  /\ \E l \in Range(flibs) :
       ~IsForgeItself(l) /\ LineOf(l) \in Range(clean_classpath)
         /\ ItemOf(l) \notin Range(classpath)

\* C39: the ForgeInstallProgress events of one install_client run come in stage order
\* (P1Start, P2DownloadingJson, P3DownloadingInstaller, P4RunningInstaller,
\* P5DownloadingLibrary); the P5 events have strictly increasing num between 1 and
\* out_of and one and the same positive out_of; so get_num never decreases along the
\* run and never exceeds total().
StageOrder ==
  <<"P1Start", "P2DownloadingJson", "P3DownloadingInstaller", "P4RunningInstaller",
    "P5DownloadingLibrary">>
StageOf(msg) == CHOOSE k \in 1..5 : StageOrder[k] = msg.kind
LessEq(a, b) == a.d > 0 /\ b.d > 0 /\ a.n * b.d <= b.n * a.d

C39_ProgressMonotone ==
  /\ \A k \in 1..Len(fprog) : fprog[k].kind \in Range(StageOrder)
  /\ \A j, k \in 1..Len(fprog) :
       j < k =>
         /\ StageOf(fprog[j]) <= StageOf(fprog[k])
         /\ LessEq(get_num(fprog[j]), get_num(fprog[k]))
         /\ (j \in P5Sent /\ k \in P5Sent) =>
              /\ fprog[j].num < fprog[k].num
              /\ fprog[j].out_of = fprog[k].out_of
  /\ \A k \in P5Sent : 1 <= fprog[k].num /\ fprog[k].num <= fprog[k].out_of
  /\ \A k \in 1..Len(fprog) : LessEq(get_num(fprog[k]), total)

C39_Witness ==
  /\ Returned /\ fresult.ok
  /\ Cardinality(P5Sent) >= 2
  /\ \E k \in 1..Len(fprog) : fprog[k].kind = "P4RunningInstaller"
  /\ get_num(fprog[Len(fprog)]) = [n |-> 4 * fprog[Len(fprog)].out_of,
                                    d |-> fprog[Len(fprog)].out_of]

\* C40: LogoutConfirm for a selected account removes that account from accounts, from
\* config.accounts and from accounts_dropdown, and selects the first remaining entry
\* of the list or the offline account, never the account just logged out; this holds
\* for Microsoft and for ElyBy accounts added by account_response_3, after any
\* sequence of logins and logouts.
Keys(map) == DOMAIN map
\* the names under which an account is kept: its key and its entry in the list
NamesOf(key, data) == {key, data.username}
Remaining(n) == \E k \in Keys(accounts') : n \in NamesOf(k, accounts'[k])

C40_Step ==
  (/\ handled' = "LogoutConfirm" /\ state = "ConfirmAction" /\ state' = "Launch"
   /\ accounts_selected.v \in Keys(accounts)) =>
    LET username == accounts_selected.v
        names == NamesOf(username, accounts[username])
    IN
    /\ username \notin Keys(accounts')
    /\ username \notin Keys(config_accounts'.map)
    /\ \A n \in names : n \in Range(accounts_dropdown') => Remaining(n)
    /\ accounts_selected' =
         Some(IF accounts_dropdown' # <<>> THEN Head(accounts_dropdown')
              ELSE OFFLINE_ACCOUNT_NAME)
    /\ accounts_selected'.v \in names => Remaining(accounts_selected'.v)

C40_LogoutRemovesAccount == [][C40_Step]_vars

====
